---------------------------- MODULE Spec2Model ----------------------------
(***************************************************************************)
(* State-machine model of the bytecode VM of the Lox implementation: the   *)
(* open-addressing hash table (Table), the call-frame VM with closures and *)
(* upvalues, classes and instances, and the mark-sweep garbage collector.  *)
(* Every definition is translated from the TypeScript given in the         *)
(* repository (src/vm sources and the step documents that carry the code   *)
(* of the later steps).                                                    *)
(***************************************************************************)
EXTENDS Integers, Sequences, FiniteSets, TLC

VARIABLES
  tbl,          \* the Table under test (Table spec)
  shadow,       \* ghost: key -> value of the latest set not followed by delete
  stack,        \* VM.stack: the operand stack
  frames,       \* VM.frames: the call-frame stack
  globals,      \* VM.globals: a Table
  openUpvalues, \* VM.openUpvalues: the linked list, head first
  heap,         \* every object created with new, by identity
  result,       \* "running" or the InterpretResult / host fault of the run
  last,         \* ghost: the instruction just executed and what it saw
  gc,           \* GarbageCollector: objects (tracked), greyStack, marks
  comp          \* the front end: the Compiler with its VmScanner and source

tableVars == <<tbl, shadow>>
vmVars    == <<stack, frames, globals, openUpvalues, heap, result, last>>
gcVars    == <<gc>>
frontVars == <<comp>>
vars      == <<tableVars, vmVars, gcVars, frontVars>>

---------------------------------------------------------------------------
(* Bounds of the model *)

NumKeys == 6      \* keys used by the Table specification

---------------------------------------------------------------------------
(* VmValue: a tagged value. v is a number, a string index or an object id *)

\* no Compiler has been constructed
NoFrontEnd == [op |-> "none"]

NIL       == [t |-> "nil", v |-> 0]
UNDEFINED == [t |-> "undefined", v |-> 0]   \* JavaScript undefined
Num(n)    == [t |-> "number", v |-> n]
Obj(id)   == [t |-> "obj", v |-> id]

---------------------------------------------------------------------------
(* fnv1a: 32-bit FNV-1a over the UTF-16 code units of the key.  A 32-bit   *)
(* unsigned number is kept as two 16-bit halves <<hi, lo>>.                *)

charCodes(s) ==
  CASE s = "a" -> <<97>>   [] s = "c" -> <<99>>   [] s = "d" -> <<100>>
    [] s = "e" -> <<101>>  [] s = "f" -> <<102>>  [] s = "g" -> <<103>>
    [] s = "m" -> <<109>>  [] s = "q" -> <<113>>  [] s = "x" -> <<120>>
    [] s = "y" -> <<121>>  [] s = "i" -> <<105>>
    [] s = "init" -> <<105, 110, 105, 116>>
    [] s = "clock" -> <<99, 108, 111, 99, 107>>

RECURSIVE Xor(_, _)
Xor(a, b) ==
  IF a = 0 THEN b
  ELSE IF b = 0 THEN a
  ELSE 2 * Xor(a \div 2, b \div 2) + ((a + b) % 2)

\* hash ^= c ; hash = Math.imul(hash, 16777619) >>> 0   (16777619 = 2^24 + 403)
FnvStep(h, c) ==
  LET lo  == Xor(h[2], c)
      hi  == h[1]
      low == lo * 403
  IN  << (hi * 403 + (low \div 65536) + (lo % 256) * 256) % 65536, low % 65536 >>

RECURSIVE FnvFold(_, _)
FnvFold(h, cs) ==
  IF cs = <<>> THEN h ELSE FnvFold(FnvStep(h, Head(cs)), Tail(cs))

\* 2166136261 = 0x811C9DC5
fnv1a(s) == FnvFold(<<33052, 40389>>, charCodes(s))

\* fnv1a(key) % capacity
HashIndex(s, capacity) ==
  LET h == fnv1a(s)
  IN  ((h[1] % capacity) * (65536 % capacity) + (h[2] % capacity)) % capacity

---------------------------------------------------------------------------
(* Table: entries, count (live entries + tombstones), capacity.  A slot    *)
(* that is null and a slot holding an Entry with key null and isDeleted    *)
(* false are the same empty slot: every reader treats them alike.          *)

NoKey == "<null>"
EmptyEntry == [key |-> NoKey, value |-> NIL, isDeleted |-> FALSE]
NewTable == [entries |-> <<>>, count |-> 0, capacity |-> 0]

\* findEntry: the index of the entry it returns; -1 when the probe would
\* never stop (no empty slot on the path)
RECURSIVE Probe(_, _, _, _, _)
Probe(t, key, index, tombstone, n) ==
  LET entry == t.entries[index + 1] IN
  IF n > t.capacity THEN -1
  ELSE IF entry.key = NoKey /\ ~entry.isDeleted
       THEN (IF tombstone # -1 THEN tombstone ELSE index)
  ELSE IF entry.isDeleted
       THEN Probe(t, key, (index + 1) % t.capacity,
                  IF tombstone # -1 THEN tombstone ELSE index, n + 1)
  ELSE IF entry.key = key THEN index
  ELSE Probe(t, key, (index + 1) % t.capacity, tombstone, n + 1)

findEntry(t, key) == Probe(t, key, HashIndex(key, t.capacity), -1, 1)

TableGet(t, key) ==
  IF t.capacity = 0 THEN UNDEFINED
  ELSE LET entry == t.entries[findEntry(t, key) + 1]
       IN  IF entry.key = NoKey THEN UNDEFINED ELSE entry.value

Max(a, b) == IF a >= b THEN a ELSE b

RECURSIVE TableSet(_, _, _)
RECURSIVE Rehash(_, _, _)

\* the loop of adjustCapacity that passes over the first slot
RECURSIVE Rehash_rest(_, _, _)
Rehash_rest(t, old, i) ==
  IF i > Len(old) THEN t
  ELSE IF old[i].key # NoKey /\ i > 1
       THEN Rehash_rest(TableSet(t, old[i].key, old[i].value).t, old, i + 1)
       ELSE Rehash_rest(t, old, i + 1)

\* the loop of adjustCapacity (and of addAll): set every live entry of old
Rehash(t, old, i) ==
  IF i > Len(old) THEN t
  ELSE IF old[i].key # NoKey
       THEN Rehash(TableSet(t, old[i].key, old[i].value).t, old, i + 1)
       ELSE Rehash(t, old, i + 1)

\* adjustCapacity that allocates half of what it is asked for
adjustCapacity_half(t, newCapacity) ==
  Rehash([entries |-> [i \in 1..(newCapacity \div 2) |-> EmptyEntry],
          count |-> 0, capacity |-> newCapacity \div 2],
         t.entries, 1)

adjustCapacity(t, newCapacity) ==
  Rehash([entries |-> [i \in 1..newCapacity |-> EmptyEntry],
          count |-> 0, capacity |-> newCapacity],
         t.entries, 1)

\* set that reports a reused tombstone as no new key
TableSet_counted(t, key, value) ==
  LET t1 == IF (t.count + 1) * 4 > t.capacity * 3
            THEN adjustCapacity(t, Max(8, t.capacity * 2))
            ELSE t
      idx == findEntry(t1, key)
      entry == t1.entries[idx + 1]
      isNewKey == entry.key = NoKey
  IN  [t |-> [t1 EXCEPT
                !.count = IF isNewKey /\ ~entry.isDeleted THEN @ + 1 ELSE @,
                !.entries[idx + 1] =
                   [key |-> key, value |-> value, isDeleted |-> FALSE]],
       ret |-> isNewKey /\ ~entry.isDeleted]

\* set that re-creates the table at four slots instead of doubling it
TableSet_cramped(t, key, value) ==
  LET t1 == IF (t.count + 1) * 4 > t.capacity * 3
            THEN adjustCapacity(t, 4)
            ELSE t
      idx == findEntry(t1, key)
      entry == t1.entries[idx + 1]
      isNewKey == entry.key = NoKey
  IN  [t |-> [t1 EXCEPT
                !.count = IF isNewKey /\ ~entry.isDeleted THEN @ + 1 ELSE @,
                !.entries[idx + 1] =
                   [key |-> key, value |-> value, isDeleted |-> FALSE]],
       ret |-> isNewKey]

\* set: the table afterwards and the returned isNewKey
TableSet(t, key, value) ==
  LET t1 == IF (t.count + 1) * 4 > t.capacity * 3     \* > capacity * 0.75
            THEN adjustCapacity(t, Max(8, t.capacity * 2))
            ELSE t
      idx == findEntry(t1, key)
      entry == t1.entries[idx + 1]
      isNewKey == entry.key = NoKey
  IN  [t |-> [t1 EXCEPT
                !.count = IF isNewKey /\ ~entry.isDeleted THEN @ + 1 ELSE @,
                !.entries[idx + 1] =
                   [key |-> key, value |-> value, isDeleted |-> FALSE]],
       ret |-> isNewKey]

TableDelete_clear(t, key) ==
  IF t.capacity = 0 THEN [t |-> t, ret |-> FALSE]
  ELSE LET idx == findEntry(t, key)
       IN  IF t.entries[idx + 1].key = NoKey THEN [t |-> t, ret |-> FALSE]
           ELSE [t |-> [t EXCEPT !.entries[idx + 1] = EmptyEntry],
                 ret |-> TRUE]

\* delete: the table afterwards and the returned boolean
TableDelete(t, key) ==
  IF t.capacity = 0 THEN [t |-> t, ret |-> FALSE]
  ELSE LET idx == findEntry(t, key)
       IN  IF t.entries[idx + 1].key = NoKey THEN [t |-> t, ret |-> FALSE]
           ELSE [t |-> [t EXCEPT !.entries[idx + 1].key = NoKey,
                                 !.entries[idx + 1].isDeleted = TRUE],
                 ret |-> TRUE]

addAll(to, from) == Rehash(to, from.entries, 1)

---------------------------------------------------------------------------
(* The Table specification: any sequence of set, get and delete on one     *)
(* Table, over keys that share home slots at capacity 8 and at 16.         *)

KeyList == <<"a", "q", "e", "f", "c", "d", "g", "i", "y">>
Keys == {KeyList[i] : i \in 1..NumKeys}
TableValues == {Num(1), Num(2)}

DoSet(k, v) ==
  /\ tbl' = TableSet(tbl, k, v).t
  /\ shadow' = [shadow EXCEPT ![k] = v]

\* get changes nothing a later call can observe; what it returns is
\* TableGet(tbl, k)
DoGet(k) ==
  /\ TableGet(tbl, k) \in TableValues \cup {UNDEFINED}
  /\ UNCHANGED <<tbl, shadow>>

DoDelete(k) ==
  /\ tbl' = TableDelete(tbl, k).t
  /\ shadow' = [shadow EXCEPT ![k] = UNDEFINED]

---------------------------------------------------------------------------
(* new GarbageCollector(), and the Table specification's initial state:   *)
(* new Table(), beside a VM on which nothing has run.                      *)

NewGc == [objects |-> {}, greyStack |-> <<>>, mark |-> <<>>, wrapped |-> TRUE]

TableInit ==
  /\ tbl = NewTable
  /\ shadow = [k \in Keys |-> UNDEFINED]
  /\ stack = <<>>
  /\ frames = <<>>
  /\ globals = NewTable
  /\ openUpvalues = <<>>
  /\ heap = <<>>
  /\ result = "idle"
  /\ last = [op |-> "none"]
  /\ comp = NoFrontEnd
  /\ gc = NewGc

TableNext ==
  \/ \E k \in Keys, v \in TableValues : DoSet(k, v) /\ UNCHANGED <<vmVars, gcVars, frontVars>>
  \/ \E k \in Keys : DoGet(k) /\ UNCHANGED <<vmVars, gcVars, frontVars>>
  \/ \E k \in Keys : DoDelete(k) /\ UNCHANGED <<vmVars, gcVars, frontVars>>

SpecTable == TableInit /\ [][TableNext]_vars

---------------------------------------------------------------------------
(* The VM.  Objects live in heap by identity (their index); a VmValue that *)
(* is an object is Obj(id).  A call frame is [closure, base, locals]:      *)
(* closure and base are CallFrame's fields; locals has one entry for each  *)
(* slot from base that the compiler's locals list covers where the frame   *)
(* is executing (slot 0, the parameters, the declared locals); the slots   *)
(* above are temporaries.  The entry of a local is the number of objects   *)
(* that existed when it was declared: with its stack index it names the    *)
(* variable, since a later variable in the same slot that is captured is   *)
(* declared after the upvalue of the earlier one was created.  A closure   *)
(* records in captured, beside each upvalue, the variable the compiler     *)
(* resolved it to and the entry of slot 0 of the frame that owns it, which *)
(* differs between two calls that an allocation separates.  CallFrame.ip  *)
(* is not kept: the next instruction is any instruction compiled code can  *)
(* hold at that point.  The Table of a class's methods and of an           *)
(* instance's fields is an object of its own, which the class or instance  *)
(* refers to; a class records in super the class OP_INHERIT copied from.   *)

FRAMES_MAX == 64

\* VmFunction prototypes the compiler can produce: arity and, per upvalue,
\* the pair (isLocal, index) that follows OP_CLOSURE.  1 is the script.
Functions ==
  << [arity |-> 0, upvalues |-> <<>>],
     [arity |-> 0, upvalues |-> <<>>],
     [arity |-> 1, upvalues |-> <<>>],
     [arity |-> 0, upvalues |-> <<[isLocal |-> TRUE, index |-> 1]>>],
     [arity |-> 1, upvalues |-> <<[isLocal |-> TRUE, index |-> 1]>>],
     [arity |-> 0, upvalues |-> <<[isLocal |-> FALSE, index |-> 0]>>],
     [arity |-> 0, upvalues |-> <<[isLocal |-> TRUE, index |-> 2]>>] >>

NativeObj(arity)      == [kind |-> "native", arity |-> arity]
ClosureObj(fn, uvs)   == [kind |-> "closure", fn |-> fn, upvalues |-> uvs, captured |-> <<>>]
UpvalueObj(loc)       == [kind |-> "upvalue", location |-> loc, closed |-> NIL, closes |-> 0]
ClassObj(name, tab)   == [kind |-> "class", name |-> name, methods |-> tab, super |-> 0]
InstanceObj(klass, tab) == [kind |-> "instance", klass |-> klass, fields |-> tab]
TableObj              == [kind |-> "table", t |-> NewTable]
BoundObj(recv, meth)  == [kind |-> "bound", receiver |-> recv, method |-> meth]

IsObj(v, kind) == v.t = "obj" /\ heap[v.v].kind = kind

\* klass.methods and instance.fields: the Table the object refers to
Methods(h, klass) == h[h[klass].methods].t
Fields(h, instance) == h[h[instance].fields].t

\* this.frames[this.frames.length - 1]
currentFrame == frames[Len(frames)]

\* this.stack[i] for a 0-based i; undefined outside the array
StackAt(s, i) == IF i >= 0 /\ i < Len(s) THEN s[i + 1] ELSE UNDEFINED

\* peek(distance)
peek(s, distance) == StackAt(s, Len(s) - 1 - distance)

\* this.stack.length = n  (n <= length)
Truncate(s, n) == SubSeq(s, 1, n)

\* number of slots of the current frame that are locals
NumLocals == Len(currentFrame.locals)

\* number of temporaries above the current frame's locals
Temps == Len(stack) - (currentFrame.base + NumLocals)

Running == result = "running"

\* gc.alloc(obj): the object is created and registered, marked white
Alloc(h, g, obj) ==
  [heap |-> Append(h, obj),
   gc |-> [g EXCEPT !.objects = @ \cup {Len(h) + 1},
                    !.mark = Append(@, "white")],
   id |-> Len(h) + 1]

\* a VmNative is no GcObject: it is created and not registered
AllocNative(h, g, obj) ==
  [heap |-> Append(h, obj), gc |-> [g EXCEPT !.mark = Append(@, "white")],
   id |-> Len(h) + 1]

\* new LoxVmClass / new LoxVmInstance through gc.alloc: the object's Table
\* is created with it and is not registered
AllocWithTable(h, g, kind, x) ==
  LET t == AllocNative(h, g, TableObj)
  IN Alloc(t.heap, t.gc, IF kind = "class" THEN ClassObj(x, t.id) ELSE InstanceObj(x, t.id))

\* new VmClosure / new VmUpvalue: the creation sites of closures and
\* upvalues are written with a plain new; gc.wrapped tells whether the build
\* has wrapped them in gcAlloc, which registers the object
AllocVm(h, g, obj) == IF g.wrapped THEN Alloc(h, g, obj) ELSE AllocNative(h, g, obj)

\* the state in which run() starts: the constructor has defined the native
\* clock (arity 0); interpret has pushed the script closure and called it
VmStartHeap == <<NativeObj(0), ClosureObj(1, <<>>)>>
VmStartGc ==
  [objects |-> {2}, greyStack |-> <<>>, mark |-> <<"white", "white">>, wrapped |-> TRUE]
VmStartGlobals == TableSet(NewTable, "clock", Obj(1)).t
VmStartFrames == <<[closure |-> 2, base |-> 0, locals |-> <<1>>]>>

---------------------------------------------------------------------------
(* Instructions.  Each action is one case of the dispatch loop of run().   *)

ConstValues == {Num(1), Num(2)}
GlobalNames == {"a", "q", "clock"}

\* OP_CONSTANT / OP_NIL: push a literal
OpConstant(v) ==
  /\ Running
  /\ stack' = Append(stack, v)
  /\ last' = [op |-> "OP_CONSTANT"]
  /\ UNCHANGED <<frames, globals, openUpvalues, heap, result, gc>>

\* the open upvalue, if any, whose location is the 0-based stack index i
OpenAt(i) == {u \in 1..Len(heap) : heap[u].kind = "upvalue" /\ heap[u].location = i}

\* OP_POP.  Compiled code pops a temporary (an expression statement) or,
\* at the end of a scope, a local that no closure captured.
OpPop ==
  /\ Running
  /\ \/ Temps > 0 /\ frames' = frames
     \/ /\ Temps = 0 /\ NumLocals > 1
        /\ OpenAt(Len(stack) - 1) = {}
        /\ frames' = [frames EXCEPT ![Len(frames)].locals = SubSeq(@, 1, Len(@) - 1)]
  /\ stack' = Truncate(stack, Len(stack) - 1)
  /\ last' = [op |-> "OP_POP"]
  /\ UNCHANGED <<globals, openUpvalues, heap, result, gc>>

\* var x = <expression>; inside a block: no instruction is emitted, the
\* temporary on top becomes the next local (defineVariable, markInitialized)
DeclareLocal ==
  /\ Running
  /\ Temps = 1
  /\ frames' = [frames EXCEPT ![Len(frames)].locals = Append(@, Len(heap))]
  /\ last' = [op |-> "declare"]
  /\ UNCHANGED <<stack, globals, openUpvalues, heap, result, gc>>

\* OP_DEFINE_GLOBAL
OpDefineGlobal(name) ==
  /\ Running
  /\ Temps > 0
  /\ globals' = TableSet(globals, name, peek(stack, 0)).t
  /\ stack' = Truncate(stack, Len(stack) - 1)
  /\ last' = [op |-> "OP_DEFINE_GLOBAL"]
  /\ UNCHANGED <<frames, openUpvalues, heap, result, gc>>

\* OP_GET_GLOBAL
OpGetGlobal(name) ==
  /\ Running
  /\ LET value == TableGet(globals, name) IN
     IF value = UNDEFINED
     THEN result' = "RUNTIME_ERROR" /\ stack' = stack
     ELSE result' = result /\ stack' = Append(stack, value)
  /\ last' = [op |-> "OP_GET_GLOBAL", name |-> name]
  /\ UNCHANGED <<frames, globals, openUpvalues, heap, gc>>

\* what OP_SET_GLOBAL leaves in the globals table when set() reports a new
\* key: the speculative insert is undone
SetGlobalUndo_keep(t, name) == t

SetGlobalUndo(t, name) == TableDelete(t, name).t

\* OP_SET_GLOBAL
OpSetGlobal(name) ==
  /\ Running
  /\ Temps > 0
  /\ LET set == TableSet(globals, name, peek(stack, 0)) IN
     IF set.ret
     THEN globals' = SetGlobalUndo(set.t, name) /\ result' = "RUNTIME_ERROR"
     ELSE globals' = set.t /\ result' = result
  /\ last' = [op |-> "OP_SET_GLOBAL", name |-> name,
              defined |-> TableGet(globals, name) # UNDEFINED,
              before |-> [n \in GlobalNames |-> TableGet(globals, n)],
              height |-> Len(stack), value |-> peek(stack, 0)]
  /\ UNCHANGED <<stack, frames, openUpvalues, heap, gc>>

\* an assignment to a stack slot that is lost
SetAt_lost(s, i, value) == s

\* stack[i] = value for a 0-based i: an index past the end grows the array
SetAt(s, i, value) ==
  IF i < Len(s) THEN [s EXCEPT ![i + 1] = value]
  ELSE s \o [k \in 1..(i - Len(s)) |-> UNDEFINED] \o <<value>>

\* OP_GET_LOCAL: compiled code reads a slot of the locals list
OpGetLocal(slot) ==
  /\ Running
  /\ slot < NumLocals
  /\ stack' = Append(stack, StackAt(stack, currentFrame.base + slot))
  /\ last' = [op |-> "OP_GET_LOCAL", slot |-> slot]
  /\ UNCHANGED <<frames, globals, openUpvalues, heap, result, gc>>

\* OP_SET_LOCAL: the right-hand side is the temporary on top
OpSetLocal(slot) ==
  /\ Running
  /\ slot < NumLocals
  /\ Temps > 0
  /\ stack' = SetAt(stack, currentFrame.base + slot, peek(stack, 0))
  /\ last' = [op |-> "OP_SET_LOCAL", slot |-> slot, height |-> Len(stack),
              value |-> peek(stack, 0)]
  /\ UNCHANGED <<frames, globals, openUpvalues, heap, result, gc>>

\* VmUpvalue.read
UpvalueRead(h, s, u) ==
  IF h[u].location >= 0 THEN StackAt(s, h[u].location) ELSE h[u].closed

\* VmUpvalue.write: the pair (heap, stack) after the write
UpvalueWrite(h, s, u, value) ==
  IF h[u].location >= 0
  THEN [heap |-> h, stack |-> SetAt(s, h[u].location, value)]
  ELSE [heap |-> [h EXCEPT ![u].closed = value], stack |-> s]

\* the position in the open list (sorted by falling location) where the
\* search loop of captureUpvalue stops
RECURSIVE CaptureScan(_, _, _, _)
CaptureScan(h, open, location, i) ==
  IF i <= Len(open) /\ h[open[i]].location > location
  THEN CaptureScan(h, open, location, i + 1)
  ELSE i

\* captureUpvalue without the search for an existing upvalue
captureUpvalue_fresh(h, g, open, location) ==
  LET a == AllocVm(h, g, UpvalueObj(location))
  IN [heap |-> a.heap, gc |-> a.gc, open |-> <<a.id>> \o open, uv |-> a.id]

\* captureUpvalue that puts a new upvalue at the head of the list
captureUpvalue_front(h, g, open, location) ==
  LET i == CaptureScan(h, open, location, 1) IN
  IF i <= Len(open) /\ h[open[i]].location = location
  THEN [heap |-> h, gc |-> g, open |-> open, uv |-> open[i]]
  ELSE LET a == AllocVm(h, g, UpvalueObj(location))
       IN [heap |-> a.heap, gc |-> a.gc, open |-> <<a.id>> \o open, uv |-> a.id]

\* captureUpvalue
captureUpvalue(h, g, open, location) ==
  LET i == CaptureScan(h, open, location, 1) IN
  IF i <= Len(open) /\ h[open[i]].location = location
  THEN [heap |-> h, gc |-> g, open |-> open, uv |-> open[i]]
  ELSE LET a == AllocVm(h, g, UpvalueObj(location))
       IN [heap |-> a.heap, gc |-> a.gc,
           open |-> SubSeq(open, 1, i - 1) \o <<a.id>> \o SubSeq(open, i, Len(open)),
           uv |-> a.id]

\* VmUpvalue.close that forgets the slot's value
UpvalueClose_forget(h, s, u) == [h EXCEPT ![u].location = -1, ![u].closes = @ + 1]

\* VmUpvalue.close that leaves the upvalue on its slot
UpvalueClose_stay(h, s, u) ==
  [h EXCEPT ![u].closed = StackAt(s, h[u].location), ![u].closes = @ + 1]

\* VmUpvalue.close: the heap after the upvalue took its slot's value; closes
\* counts the calls of close on the upvalue
UpvalueClose(h, s, u) ==
  [h EXCEPT ![u].closed = StackAt(s, h[u].location), ![u].location = -1,
            ![u].closes = @ + 1]

\* closeUpvalues without effect
closeUpvalues_skip(h, s, open, lastSlot) == [heap |-> h, open |-> open]

\* closeUpvalues(last)
RECURSIVE closeUpvalues(_, _, _, _)
closeUpvalues(h, s, open, lastSlot) ==
  IF open # <<>> /\ h[Head(open)].location >= lastSlot
  THEN closeUpvalues(UpvalueClose(h, s, Head(open)), s, Tail(open), lastSlot)
  ELSE [heap |-> h, open |-> open]

\* the loop of OP_CLOSURE over the (isLocal, index) pairs of the prototype
RECURSIVE CaptureAll(_, _, _, _)
CaptureAll(st, ups, i, closure) ==
  IF i > Len(ups) THEN st
  ELSE IF ups[i].isLocal
  THEN LET c == captureUpvalue(st.heap, st.gc, st.open, currentFrame.base + ups[i].index)
       IN CaptureAll([heap |-> [c.heap EXCEPT
                                  ![closure].upvalues = Append(@, c.uv),
                                  ![closure].captured =
                                      Append(@, <<currentFrame.locals[ups[i].index + 1],
                                                  currentFrame.base + ups[i].index,
                                                  currentFrame.locals[1]>>)],
                      gc |-> c.gc, open |-> c.open], ups, i + 1, closure)
  ELSE CaptureAll([st EXCEPT
                     !.heap[closure].upvalues =
                         Append(@, heap[currentFrame.closure].upvalues[ups[i].index + 1]),
                     !.heap[closure].captured =
                         Append(@, heap[currentFrame.closure].captured[ups[i].index + 1])],
                  ups, i + 1, closure)

\* the compiler emits a capture only for a local of the enclosing function
\* (resolveLocal) or for an upvalue the enclosing function has (addUpvalue)
CanCapture(up) ==
  IF up.isLocal THEN up.index < NumLocals
  ELSE up.index < Len(heap[currentFrame.closure].upvalues)

\* OP_CLOSURE
OpClosure(fn) ==
  /\ Running
  /\ \A k \in 1..Len(Functions[fn].upvalues) : CanCapture(Functions[fn].upvalues[k])
  /\ LET a == AllocVm(heap, gc, ClosureObj(fn, <<>>))
         st == CaptureAll([heap |-> a.heap, gc |-> a.gc, open |-> openUpvalues],
                          Functions[fn].upvalues, 1, a.id)
     IN /\ stack' = Append(stack, Obj(a.id))
        /\ heap' = st.heap
        /\ gc' = st.gc
        /\ openUpvalues' = st.open
        /\ last' = [op |-> "OP_CLOSURE", id |-> a.id]
  /\ UNCHANGED <<frames, globals, result>>

\* OP_GET_UPVALUE
OpGetUpvalue(slot) ==
  /\ Running
  /\ slot < Len(heap[currentFrame.closure].upvalues)
  /\ stack' = Append(stack, UpvalueRead(heap, stack,
                        heap[currentFrame.closure].upvalues[slot + 1]))
  /\ last' = [op |-> "OP_GET_UPVALUE", slot |-> slot]
  /\ UNCHANGED <<frames, globals, openUpvalues, heap, result, gc>>

\* OP_SET_UPVALUE
OpSetUpvalue(slot) ==
  /\ Running
  /\ slot < Len(heap[currentFrame.closure].upvalues)
  /\ Temps > 0
  /\ LET w == UpvalueWrite(heap, stack,
                 heap[currentFrame.closure].upvalues[slot + 1], peek(stack, 0))
     IN heap' = w.heap /\ stack' = w.stack
  /\ last' = [op |-> "OP_SET_UPVALUE", slot |-> slot, height |-> Len(stack),
              value |-> peek(stack, 0)]
  /\ UNCHANGED <<frames, globals, openUpvalues, result, gc>>

\* OP_CLOSE_UPVALUE: emitted by endScope for a captured local
OpCloseUpvalue ==
  /\ Running
  /\ Temps = 0 /\ NumLocals > 1
  /\ LET c == closeUpvalues(heap, stack, openUpvalues, Len(stack) - 1)
     IN heap' = c.heap /\ openUpvalues' = c.open
  /\ stack' = Truncate(stack, Len(stack) - 1)
  /\ frames' = [frames EXCEPT ![Len(frames)].locals = SubSeq(@, 1, Len(@) - 1)]
  /\ last' = [op |-> "OP_CLOSE_UPVALUE"]
  /\ UNCHANGED <<globals, result, gc>>

\* call() that pushes a frame whatever the number of frames
call_unbounded(h, closure, argCount, nframes) ==
  IF argCount # Functions[h[closure].fn].arity THEN "arity" ELSE "ok"

\* the two checks of call(): the arity, then the frame limit
call(h, closure, argCount, nframes) ==
  IF argCount # Functions[h[closure].fn].arity THEN "arity"
  ELSE IF nframes >= FRAMES_MAX THEN "overflow"
  ELSE "ok"

\* call(closure, argCount) on stack s and heap h, g: a runtime error, or a
\* new frame whose slot 0 is the callee and whose locals are the arguments
\* a variant of call() whose frame starts above the callee
CallClosure_above(s, h, g, closure, argCount) ==
  /\ stack' = s
  /\ heap' = h
  /\ gc' = g
  /\ IF call(h, closure, argCount, Len(frames)) = "ok"
     THEN /\ frames' = Append(frames, [closure |-> closure,
                                       base |-> Len(s) - argCount,
                                       locals |-> [k \in 1..argCount + 1 |-> Len(h)]])
          /\ result' = result
     ELSE frames' = frames /\ result' = "RUNTIME_ERROR"

CallClosure(s, h, g, closure, argCount) ==
  /\ stack' = s
  /\ heap' = h
  /\ gc' = g
  /\ IF call(h, closure, argCount, Len(frames)) = "ok"
     THEN /\ frames' = Append(frames, [closure |-> closure,
                                       base |-> Len(s) - argCount - 1,
                                       locals |-> [k \in 1..argCount + 1 |-> Len(h)]])
          /\ result' = result
     ELSE frames' = frames /\ result' = "RUNTIME_ERROR"

\* what the host function of a native returns (clock: a number)
NativeResults == {Num(1)}

\* the case of callValue the callee falls in
CalleeKind(v) ==
  IF v.t # "obj" THEN "none"
  ELSE IF heap[v.v].kind = "class"
  THEN (IF TableGet(Methods(heap, v.v), "init") # UNDEFINED
        THEN "class with init" ELSE "class without init")
  ELSE IF heap[v.v].kind \in {"closure", "native", "bound"} THEN heap[v.v].kind
  ELSE "none"

\* the arity the callee declares
CalleeArity(v) ==
  CASE CalleeKind(v) = "closure" -> Functions[heap[v.v].fn].arity
    [] CalleeKind(v) = "native" -> heap[v.v].arity
    [] CalleeKind(v) = "bound" -> Functions[heap[heap[v.v].method].fn].arity
    [] CalleeKind(v) = "class with init" ->
         Functions[heap[TableGet(Methods(heap, v.v), "init").v].fn].arity
    [] OTHER -> 0

\* callValue(callee, argCount) on stack s
callValue(s, callee, argCount) ==
  LET slot == Len(s) - argCount IN
  IF IsObj(callee, "closure")
  THEN CallClosure(s, heap, gc, callee.v, argCount)
  ELSE IF IsObj(callee, "native")
  THEN /\ \E r \in NativeResults :
            stack' = Append(Truncate(s, Len(s) - argCount - 1), r)
       /\ UNCHANGED <<frames, heap, result, gc>>
  ELSE IF IsObj(callee, "class")
  THEN LET a == AllocWithTable(heap, gc, "instance", callee.v)
           s1 == [s EXCEPT ![slot] = Obj(a.id)]
           init == TableGet(Methods(heap, callee.v), "init")
       IN IF init # UNDEFINED
          THEN CallClosure(s1, a.heap, a.gc, init.v, argCount)
          ELSE /\ stack' = s1
               /\ heap' = a.heap
               /\ gc' = a.gc
               /\ frames' = frames
               /\ result' = IF argCount # 0 THEN "RUNTIME_ERROR" ELSE result
  ELSE IF IsObj(callee, "bound")
  THEN CallClosure([s EXCEPT ![slot] = Obj(heap[callee.v].receiver)],
                   heap, gc, heap[callee.v].method, argCount)
  ELSE /\ result' = "RUNTIME_ERROR"
       /\ stack' = s
       /\ UNCHANGED <<frames, heap, gc>>

\* OP_CALL: callValue(peek(argCount), argCount)
OpCall(argCount) ==
  /\ Running
  /\ Temps >= argCount + 1
  /\ LET callee == peek(stack, argCount)
     IN /\ callValue(stack, callee, argCount)
        /\ last' = [op |-> "OP_CALL", argCount |-> argCount,
                    kind |-> CalleeKind(callee), arity |-> CalleeArity(callee),
                    frames |-> Len(frames)]
  /\ UNCHANGED <<globals, openUpvalues>>

\* OP_RETURN
OpReturn ==
  /\ Running
  /\ Temps >= 1
  /\ LET value == peek(stack, 0)
         s1 == Truncate(stack, Len(stack) - 1)
         c == closeUpvalues(heap, s1, openUpvalues, currentFrame.base)
     IN /\ heap' = c.heap
        /\ openUpvalues' = c.open
        /\ frames' = SubSeq(frames, 1, Len(frames) - 1)
        /\ IF Len(frames) = 1
           THEN /\ stack' = Truncate(s1, Len(s1) - 1)
                /\ result' = "OK"
           ELSE /\ stack' = Append(Truncate(s1, currentFrame.base), value)
                /\ result' = result
  /\ last' = [op |-> "OP_RETURN", base |-> currentFrame.base, frames |-> Len(frames),
              value |-> peek(stack, 0),
              open |-> {<<u, StackAt(stack, heap[u].location)>> :
                          u \in {o \in 1..Len(heap) :
                                   /\ heap[o].kind = "upvalue"
                                   /\ heap[o].location >= currentFrame.base}}]
  /\ UNCHANGED <<globals, gc>>

\* OP_CLASS
OpClass(name) ==
  /\ Running
  /\ LET a == AllocWithTable(heap, gc, "class", name)
     IN heap' = a.heap /\ gc' = a.gc /\ stack' = Append(stack, Obj(a.id))
  /\ last' = [op |-> "OP_CLASS"]
  /\ UNCHANGED <<frames, globals, openUpvalues, result>>

MethodNames == {"m", "x"}

\* the classes that exist
Classes(h) == {c \in 1..Len(h) : h[c].kind = "class"}

\* what klass.methods.get(name) yields, for every class and method name
Lookups(h) ==
  [c \in Classes(h) |-> [n \in MethodNames |-> TableGet(Methods(h, c), n)]]

\* OP_METHOD: compiled code has the class below the method's closure
OpMethod(name) ==
  /\ Running
  /\ Temps >= 2
  /\ IsObj(peek(stack, 0), "closure") /\ IsObj(peek(stack, 1), "class")
  /\ heap' = [heap EXCEPT ![heap[peek(stack, 1).v].methods].t =
                 TableSet(@, name, peek(stack, 0)).t]
  /\ stack' = Truncate(stack, Len(stack) - 1)
  /\ last' = [op |-> "OP_METHOD", klass |-> peek(stack, 1).v, before |-> Lookups(heap)]
  /\ UNCHANGED <<frames, globals, openUpvalues, result, gc>>

\* the order of OP_GET_PROPERTY with the method looked up first
PropertyCase_methodFirst(fieldValue, method) ==
  IF method # UNDEFINED THEN "method"
  ELSE IF fieldValue # UNDEFINED THEN "field"
  ELSE "undefined"

\* the order of OP_GET_PROPERTY on an instance: the field if fields.get
\* finds one, then bindMethod with what klass.methods.get finds
PropertyCase(fieldValue, method) ==
  IF fieldValue # UNDEFINED THEN "field"
  ELSE IF method # UNDEFINED THEN "method"
  ELSE "undefined"

\* OP_GET_PROPERTY, with bindMethod
OpGetProperty(name) ==
  /\ Running
  /\ Temps >= 1
  /\ IF ~IsObj(peek(stack, 0), "instance")
     THEN result' = "RUNTIME_ERROR" /\ UNCHANGED <<stack, heap, gc>>
     ELSE LET instance == heap[peek(stack, 0).v]
              fieldValue == TableGet(Fields(heap, peek(stack, 0).v), name)
              method == TableGet(Methods(heap, instance.klass), name)
              a == Alloc(heap, gc, BoundObj(peek(stack, 0).v, method.v))
          IN IF PropertyCase(fieldValue, method) = "field"
             THEN /\ stack' = Append(Truncate(stack, Len(stack) - 1), fieldValue)
                  /\ UNCHANGED <<heap, gc, result>>
             ELSE IF PropertyCase(fieldValue, method) = "undefined"
             THEN result' = "RUNTIME_ERROR" /\ UNCHANGED <<stack, heap, gc>>
             ELSE /\ heap' = a.heap
                  /\ gc' = a.gc
                  /\ stack' = Append(Truncate(stack, Len(stack) - 1), Obj(a.id))
                  /\ result' = result
  /\ last' = [op |-> "OP_GET_PROPERTY", name |-> name, receiver |-> peek(stack, 0),
              height |-> Len(stack), heap |-> heap]
  /\ UNCHANGED <<frames, globals, openUpvalues>>

\* OP_INVOKE: invoke(name, argCount), with invokeFromClass
OpInvoke(name, argCount) ==
  /\ Running
  /\ Temps >= argCount + 1
  /\ LET receiver == peek(stack, argCount)
         slot == Len(stack) - argCount
     IN IF ~IsObj(receiver, "instance")
        THEN result' = "RUNTIME_ERROR" /\ UNCHANGED <<stack, frames, heap, gc>>
        ELSE LET field == TableGet(Fields(heap, receiver.v), name)
                 method == TableGet(Methods(heap, heap[receiver.v].klass), name)
             IN IF field # UNDEFINED
                THEN callValue([stack EXCEPT ![slot] = field], field, argCount)
                ELSE IF method = UNDEFINED
                THEN result' = "RUNTIME_ERROR" /\ UNCHANGED <<stack, frames, heap, gc>>
                ELSE CallClosure(stack, heap, gc, method.v, argCount)
  /\ last' = [op |-> "OP_INVOKE", name |-> name, argCount |-> argCount,
              receiver |-> peek(stack, argCount), stack |-> stack, heap |-> heap,
              frames |-> Len(frames)]
  /\ UNCHANGED <<globals, openUpvalues>>

\* OP_SET_PROPERTY
OpSetProperty(name) ==
  /\ Running
  /\ Temps >= 2
  /\ IF ~IsObj(peek(stack, 1), "instance")
     THEN result' = "RUNTIME_ERROR" /\ UNCHANGED <<stack, heap>>
     ELSE /\ heap' = [heap EXCEPT ![heap[peek(stack, 1).v].fields].t =
                         TableSet(@, name, peek(stack, 0)).t]
          /\ stack' = Append(Truncate(stack, Len(stack) - 2), peek(stack, 0))
          /\ result' = result
  /\ last' = [op |-> "OP_SET_PROPERTY", name |-> name]
  /\ UNCHANGED <<frames, globals, openUpvalues, gc>>

\* klass.methods.delete(name), the Table operation on a class's methods
MethodsDelete(klass, name) ==
  /\ Running
  /\ heap' = [heap EXCEPT ![heap[klass].methods].t = TableDelete(@, name).t]
  /\ last' = [op |-> "methods.delete", klass |-> klass, before |-> Lookups(heap)]
  /\ UNCHANGED <<stack, frames, globals, openUpvalues, result, gc>>

\* OP_INHERIT that makes the subclass refer to the superclass's Table
inherit_alias(h, sub, super) ==
  [h EXCEPT ![sub].methods = h[super].methods, ![sub].super = super]

\* subclass.methods.addAll(superclass.methods)
inherit(h, sub, super) ==
  [h EXCEPT ![h[sub].methods].t = addAll(@, Methods(h, super)), ![sub].super = super]

\* OP_INHERIT: compiled code has the new subclass on top
OpInherit ==
  /\ Running
  /\ Temps >= 1 /\ Temps + NumLocals >= 3
  /\ IsObj(peek(stack, 0), "class")
  /\ IF ~IsObj(peek(stack, 1), "class")
     THEN result' = "RUNTIME_ERROR" /\ UNCHANGED <<stack, heap>>
     ELSE /\ heap' = inherit(heap, peek(stack, 0).v, peek(stack, 1).v)
          /\ stack' = Truncate(stack, Len(stack) - 1)
          /\ result' = result
  /\ last' = [op |-> "OP_INHERIT"]
  /\ UNCHANGED <<frames, globals, openUpvalues, gc>>

\* OP_GET_SUPER: the superclass is popped, then bindMethod(superclass,
\* name) binds what is now on top.  The programs explored leave an object there.
OpGetSuper(name) ==
  /\ Running
  /\ Temps >= 2
  /\ IsObj(peek(stack, 0), "class")
  /\ peek(stack, 1).t = "obj"
  /\ LET superclass == peek(stack, 0).v
         s1 == Truncate(stack, Len(stack) - 1)
         method == TableGet(Methods(heap, superclass), name)
         a == Alloc(heap, gc, BoundObj(peek(s1, 0).v, method.v))
     IN IF method = UNDEFINED
        THEN /\ result' = "RUNTIME_ERROR"
             /\ stack' = s1
             /\ UNCHANGED <<heap, gc>>
        ELSE /\ heap' = a.heap
             /\ gc' = a.gc
             /\ stack' = Append(Truncate(s1, Len(s1) - 1), Obj(a.id))
             /\ result' = result
  /\ last' = [op |-> "OP_GET_SUPER", name |-> name, argCount |-> 0,
              this |-> StackAt(stack, currentFrame.base), frames |-> Len(frames)]
  /\ UNCHANGED <<frames, globals, openUpvalues>>

\* OP_SUPER_INVOKE: the superclass is popped, then invokeFromClass
OpSuperInvoke(name, argCount) ==
  /\ Running
  /\ Temps >= argCount + 2
  /\ IsObj(peek(stack, 0), "class")
  /\ LET superclass == peek(stack, 0).v
         s1 == Truncate(stack, Len(stack) - 1)
         method == TableGet(Methods(heap, superclass), name)
     IN IF method = UNDEFINED
        THEN /\ result' = "RUNTIME_ERROR"
             /\ stack' = s1
             /\ UNCHANGED <<frames, heap, gc>>
        ELSE CallClosure(s1, heap, gc, method.v, argCount)
  /\ last' = [op |-> "OP_SUPER_INVOKE", name |-> name, argCount |-> argCount,
              this |-> StackAt(stack, currentFrame.base), frames |-> Len(frames)]
  /\ UNCHANGED <<globals, openUpvalues>>

---------------------------------------------------------------------------
(* The collector.  gc.objects is the tracked set, gc.mark[o] the _gcMark   *)
(* of object o, gc.greyStack the worklist.                                  *)

\* markObject
markObject(g, obj) ==
  IF obj \notin g.objects THEN g
  ELSE [g EXCEPT !.mark[obj] = "grey", !.greyStack = Append(@, obj)]

\* markValue: v !== null && typeof v === 'object'
markValue(g, v) == IF v.t = "obj" THEN markObject(g, v.v) ELSE g

\* for (const v of values) this.markValue(v)
RECURSIVE MarkValues(_, _)
MarkValues(g, values) ==
  IF values = <<>> THEN g ELSE MarkValues(markValue(g, Head(values)), Tail(values))

\* Table.values(): the values of the live entries, in slot order
RECURSIVE TableValuesOf(_, _)
TableValuesOf(t, i) ==
  IF i > t.capacity THEN <<>>
  ELSE IF t.entries[i].key # NoKey THEN <<t.entries[i].value>> \o TableValuesOf(t, i + 1)
  ELSE TableValuesOf(t, i + 1)

\* markRoots: the stack, the globals, the open upvalues, the frames' closures
markRoots(g, h) ==
  LET g1 == MarkValues(g, stack)
      g2 == MarkValues(g1, TableValuesOf(globals, 1))
      g3 == MarkValues(g2, [k \in 1..Len(openUpvalues) |-> Obj(openUpvalues[k])])
  IN MarkValues(g3, [k \in 1..Len(frames) |-> Obj(frames[k].closure)])

\* blackenObject that also marks the values of an instance's fields
References_fields(h, obj) ==
  CASE h[obj].kind = "closure" -> [k \in 1..Len(h[obj].upvalues) |-> Obj(h[obj].upvalues[k])]
    [] h[obj].kind = "bound" -> <<Obj(h[obj].receiver), Obj(h[obj].method)>>
    [] h[obj].kind = "class" -> TableValuesOf(Methods(h, obj), 1)
    [] h[obj].kind = "instance" -> TableValuesOf(Fields(h, obj), 1)
    [] OTHER -> <<>>

\* the objects blackenObject marks from obj: a closure's upvalues, a bound
\* method's receiver and method, a class's method values
References(h, obj) ==
  CASE h[obj].kind = "closure" -> [k \in 1..Len(h[obj].upvalues) |-> Obj(h[obj].upvalues[k])]
    [] h[obj].kind = "bound" -> <<Obj(h[obj].receiver), Obj(h[obj].method)>>
    [] h[obj].kind = "class" -> TableValuesOf(Methods(h, obj), 1)
    [] OTHER -> <<>>

\* blackenObject
blackenObject(g, h, obj) ==
  MarkValues([g EXCEPT !.mark[obj] = "black"], References(h, obj))

\* traceReferences
RECURSIVE traceReferences(_, _)
traceReferences(g, h) ==
  IF g.greyStack = <<>> THEN g
  ELSE traceReferences(
         blackenObject([g EXCEPT !.greyStack = SubSeq(@, 1, Len(@) - 1)], h,
                       g.greyStack[Len(g.greyStack)]), h)

\* sweep that reclaims nothing
sweep_keep(g) ==
  [g EXCEPT !.mark = [o \in DOMAIN g.mark |-> IF g.mark[o] = "black" THEN "white" ELSE g.mark[o]]]

\* sweep that leaves the survivors black
sweep_marked(g) == [g EXCEPT !.objects = {o \in g.objects : g.mark[o] = "black"}]

\* sweep
sweep(g) ==
  [g EXCEPT !.objects = {o \in g.objects : g.mark[o] = "black"},
            !.mark = [o \in DOMAIN g.mark |->
                        IF o \in g.objects /\ g.mark[o] = "black" THEN "white" ELSE g.mark[o]]]

\* collectGarbage(stack, globals, openUpvalues, frames), between two
\* instructions
CollectGarbage ==
  /\ Running
  /\ gc' = sweep(traceReferences(markRoots(gc, heap), heap))
  /\ last' = [op |-> "collectGarbage", before |-> gc.objects]
  /\ UNCHANGED <<stack, frames, globals, openUpvalues, heap, result>>

\* the model explores stacks of at most ms slots and heaps of at most mo objects
Within(ms, mo) == Len(stack) <= ms /\ Len(heap) <= mo

\* the model explores frames of at most ml locals and mt temporaries
FrameWithin(ml, mt) ==
  frames # <<>> => NumLocals <= ml /\ Len(stack) <= currentFrame.base + NumLocals + mt

---------------------------------------------------------------------------
(* Global variables: a script that defines, reads and assigns globals.     *)

GlobalsStack == 3

\* the state in which run() starts, with the closures registered
VmInit ==
  /\ tbl = NewTable
  /\ shadow = [k \in Keys |-> UNDEFINED]
  /\ stack = <<Obj(2)>>
  /\ frames = VmStartFrames
  /\ globals = VmStartGlobals
  /\ openUpvalues = <<>>
  /\ heap = VmStartHeap
  /\ result = "running"
  /\ last = [op |-> "none"]
  /\ comp = NoFrontEnd
  /\ gc = VmStartGc

GlobalsStep == Within(GlobalsStack, Len(VmStartHeap))' /\ UNCHANGED <<tableVars, frontVars>>

GlobalsNext ==
  \/ \E v \in ConstValues : OpConstant(v) /\ GlobalsStep
  \/ OpPop /\ GlobalsStep
  \/ \E n \in GlobalNames : OpDefineGlobal(n) /\ GlobalsStep
  \/ \E n \in GlobalNames : OpGetGlobal(n) /\ GlobalsStep
  \/ \E n \in GlobalNames : OpSetGlobal(n) /\ GlobalsStep

SpecGlobals == VmInit /\ [][GlobalsNext]_vars

---------------------------------------------------------------------------
(* Closures: a script that declares locals, creates closures over them,    *)
(* keeps closures in globals, calls them and returns from them.            *)

ClosureLocals == 2
ClosureTemps == 1
ClosureObjs == 7
ClosureNames == {"a", "q"}

\* prototype 2 is the factory, prototype 4 a function nested in it that
\* captures the factory's first local
Factory == 2
Accessor == 4

ClosureStep ==
  /\ FrameWithin(ClosureLocals, ClosureTemps)'
  /\ Len(heap') <= ClosureObjs
  /\ UNCHANGED <<tableVars, frontVars>>

\* the function the current frame is running
InFn(fn) == heap[currentFrame.closure].fn = fn

\* closure objects over prototype fn
IsClosureOf(v, fn) == IsObj(v, "closure") /\ heap[v.v].fn = fn

\* The programs explored: the script declares the factory once, as global
\* a, and keeps an accessor in global q; the factory declares a local
\* initialised to 1 and creates accessors over it; an accessor reads its
\* upvalue and assigns 2 to it.
ClosureNext ==
  \/ OpConstant(Num(1)) /\ InFn(Factory) /\ ClosureStep
  \/ OpConstant(Num(2)) /\ InFn(Accessor) /\ ClosureStep
  \/ OpPop /\ ClosureStep
  \/ DeclareLocal /\ InFn(Factory) /\ ClosureStep
  \/ OpDefineGlobal("a") /\ IsClosureOf(peek(stack, 0), Factory) /\ ClosureStep
  \/ OpDefineGlobal("q") /\ IsClosureOf(peek(stack, 0), Accessor) /\ ClosureStep
  \/ \E n \in ClosureNames : OpGetGlobal(n) /\ InFn(1) /\ ClosureStep
  \/ /\ OpClosure(Factory)
     /\ InFn(1)
     /\ \A o \in 1..Len(heap) : heap[o].kind = "closure" => heap[o].fn # Factory
     /\ ClosureStep
  \/ OpClosure(Accessor) /\ InFn(Factory) /\ ClosureStep
  \/ OpGetUpvalue(0) /\ ClosureStep
  \/ OpSetUpvalue(0) /\ ClosureStep
  \/ OpCloseUpvalue /\ ClosureStep
  \/ OpCall(0) /\ ~InFn(Accessor) /\ ClosureStep
  \/ OpReturn /\ ClosureStep

SpecClosure == VmInit /\ [][ClosureNext]_vars

---------------------------------------------------------------------------
(* Open upvalues: a script whose blocks declare the locals x and y and     *)
(* create closures over x and closures over y, in any order; a closure is  *)
(* dropped or kept in global a, and the block's end closes the upvalues.   *)

OpenLocals == 3
OpenTemps == 1
OpenObjs == 8

\* the prototype of a function that captures the block's second local
AccessorOfSecond ==
  CHOOSE fn \in 1..Len(Functions) :
    Functions[fn].upvalues = <<[isLocal |-> TRUE, index |-> 2]>>

OpenStep ==
  /\ FrameWithin(OpenLocals, OpenTemps)'
  /\ Len(heap') <= OpenObjs
  /\ UNCHANGED <<tableVars, frontVars>>

OpenNext ==
  \/ OpConstant(Num(1)) /\ Temps = 0 /\ OpenStep
  \/ DeclareLocal /\ peek(stack, 0) = Num(1) /\ OpenStep
  \/ OpClosure(Accessor) /\ OpenStep
  \/ OpClosure(AccessorOfSecond) /\ OpenStep
  \/ OpPop /\ OpenStep
  \/ OpCloseUpvalue /\ OpenStep
  \/ OpDefineGlobal("a") /\ OpenStep

SpecOpen == VmInit /\ [][OpenNext]_vars

----------------------------------------------------------------------------
(* One VM for several scripts, as the prompt loop uses it: interpret() is  *)
(* called again after a run has ended with OK or with RUNTIME_ERROR. Every *)
(* script is the prototype of the first one.                               *)

ReplLocals == 2
ReplTemps == 2
ReplObjs == 5
ReplFrames == 3
ReplStack == 6

\* interpret(source) of a source that compiles: push(fn); call(fn, 0); run()
Interpret ==
  /\ result \in {"OK", "RUNTIME_ERROR"}
  /\ stack' = Append(stack, Obj(2))
  /\ IF call(heap, 2, 0, Len(frames)) = "ok"
     THEN /\ frames' = Append(frames, [closure |-> 2, base |-> Len(stack),
                                       locals |-> <<Len(heap)>>])
          /\ result' = "running"
     ELSE frames' = frames /\ result' = "RUNTIME_ERROR"
  /\ last' = [op |-> "interpret", after |-> result]
  /\ UNCHANGED <<globals, openUpvalues, heap, gc>>

ReplStep ==
  /\ FrameWithin(ReplLocals, ReplTemps)'
  /\ Within(ReplStack, ReplObjs)'
  /\ Len(frames') <= ReplFrames
  /\ UNCHANGED <<tableVars, frontVars>>

ReplNext ==
  \/ OpConstant(Num(1)) /\ ReplStep
  \/ DeclareLocal /\ InFn(Factory) /\ ReplStep
  \/ OpClosure(Factory) /\ InFn(1) /\ ReplStep
  \/ OpClosure(Accessor) /\ InFn(Factory) /\ ReplStep
  \/ OpCall(0) /\ ReplStep
  \/ OpPop /\ ReplStep
  \/ OpReturn /\ ReplStep
  \/ Interpret /\ ReplStep

SpecRepl == VmInit /\ [][ReplNext]_vars

---------------------------------------------------------------------------
(* Collection: a script that creates classes, methods, instances, fields   *)
(* and bound methods, keeps some in a global, and collects between         *)
(* instructions.  The programs explored run into no runtime error and     *)
(* create closures as methods only.                                        *)

GcTemps == 2
GcObjs == 8

GcInit ==
  /\ tbl = NewTable
  /\ shadow = [k \in Keys |-> UNDEFINED]
  /\ stack = <<Obj(2)>>
  /\ frames = VmStartFrames
  /\ globals = VmStartGlobals
  /\ openUpvalues = <<>>
  /\ heap = VmStartHeap
  /\ result = "running"
  /\ last = [op |-> "none"]
  /\ comp = NoFrontEnd
  /\ gc \in {VmStartGc, [VmStartGc EXCEPT !.wrapped = FALSE, !.objects = {}]}

GcStep ==
  /\ FrameWithin(1, GcTemps)'
  /\ Len(heap') <= GcObjs
  /\ UNCHANGED <<tableVars, frontVars>>

GcNext ==
  \/ OpClass("A") /\ GcStep
  \/ OpClosure(Factory) /\ IsObj(peek(stack, 0), "class") /\ GcStep
  \/ OpMethod("m") /\ GcStep
  \/ OpCall(0) /\ IsObj(peek(stack, 0), "class") /\ GcStep
  \/ OpGetProperty("m") /\ IsObj(peek(stack, 0), "instance") /\ GcStep
  \/ OpSetProperty("x") /\ IsObj(peek(stack, 1), "instance") /\ GcStep
  \/ OpPop /\ GcStep
  \/ OpDefineGlobal("a") /\ GcStep
  \/ OpGetGlobal("a") /\ TableGet(globals, "a") # UNDEFINED /\ GcStep
  \/ CollectGarbage /\ GcStep

SpecGC == GcInit /\ [][GcNext]_vars

---------------------------------------------------------------------------
(* The collection cycle step by step: markRoots, then one turn of the loop *)
(* of traceReferences at a time, then sweep.  comp.phase is the position   *)
(* of collectGarbage, comp.blackened[o] the number of times the cycle has  *)
(* blackened object o (counted up to 2).  The cycle is a synchronous call: *)
(* no instruction runs within it, and its loop keeps running.              *)

MarkTemps == 2
MarkObjs == 8

MarkInit ==
  /\ tbl = NewTable
  /\ shadow = [k \in Keys |-> UNDEFINED]
  /\ stack = <<Obj(2)>>
  /\ frames = VmStartFrames
  /\ globals = VmStartGlobals
  /\ openUpvalues = <<>>
  /\ heap = VmStartHeap
  /\ result = "running"
  /\ last = [op |-> "none"]
  /\ comp = [op |-> "gc", phase |-> "idle", blackened |-> <<>>]
  /\ gc \in {VmStartGc, [VmStartGc EXCEPT !.wrapped = FALSE, !.objects = {}]}

MarkStep ==
  /\ comp.phase = "idle"
  /\ FrameWithin(1, MarkTemps)'
  /\ Len(heap') <= MarkObjs
  /\ UNCHANGED <<tableVars, frontVars>>

\* collectGarbage: this.markRoots(stack, globals, openUpvalues, frames)
MarkRoots ==
  /\ Running
  /\ comp.phase = "idle"
  /\ gc' = markRoots(gc, heap)
  /\ comp' = [comp EXCEPT !.phase = "trace", !.blackened = [o \in 1..Len(heap) |-> 0]]
  /\ last' = [op |-> "markRoots", before |-> gc.objects]
  /\ UNCHANGED <<tableVars, stack, frames, globals, openUpvalues, heap, result>>

\* traceReferences: one turn of the loop, greyStack.pop() and blackenObject
TraceStep ==
  /\ comp.phase = "trace"
  /\ gc.greyStack # <<>>
  /\ gc' = blackenObject([gc EXCEPT !.greyStack = SubSeq(@, 1, Len(@) - 1)], heap,
                         gc.greyStack[Len(gc.greyStack)])
  /\ comp' = [comp EXCEPT !.blackened[gc.greyStack[Len(gc.greyStack)]] =
                             IF @ < 2 THEN @ + 1 ELSE @]
  /\ last' = [op |-> "blackenObject", before |-> last.before]
  /\ UNCHANGED <<tableVars, stack, frames, globals, openUpvalues, heap, result>>

\* traceReferences leaves its loop; collectGarbage sweeps and returns
Sweep ==
  /\ comp.phase = "trace"
  /\ gc.greyStack = <<>>
  /\ gc' = sweep(gc)
  /\ comp' = [comp EXCEPT !.phase = "idle"]
  /\ last' = [op |-> "collectGarbage", before |-> last.before]
  /\ UNCHANGED <<tableVars, stack, frames, globals, openUpvalues, heap, result>>

\* the script creates one class, with one method, and one instance of it
NoneOf(kind) == \A o \in 1..Len(heap) : heap[o].kind # kind

MarkNext ==
  \/ OpClass("A") /\ NoneOf("class") /\ MarkStep
  \/ OpClosure(Factory) /\ IsObj(peek(stack, 0), "class") /\ Len(heap) = 4 /\ MarkStep
  \/ OpMethod("m") /\ MarkStep
  \/ OpCall(0) /\ IsObj(peek(stack, 0), "class") /\ NoneOf("instance") /\ MarkStep
  \/ OpGetProperty("m") /\ IsObj(peek(stack, 0), "instance") /\ MarkStep
  \/ OpSetProperty("x") /\ IsObj(peek(stack, 1), "instance") /\ MarkStep
  \/ OpPop /\ MarkStep
  \/ OpDefineGlobal("a") /\ MarkStep
  \/ OpGetGlobal("a") /\ TableGet(globals, "a") # UNDEFINED /\ MarkStep
  \/ MarkRoots
  \/ TraceStep
  \/ Sweep

SpecMark == MarkInit /\ [][MarkNext]_vars /\ WF_vars(TraceStep) /\ WF_vars(Sweep)

---------------------------------------------------------------------------
(* Allocation through gcAlloc: a script that declares block locals and     *)
(* creates closures, some of which capture a local; the creation sites of  *)
(* closures and upvalues hand the new object to gcAlloc.  comp holds the   *)
(* VM's allocCount and gcThreshold, and in cycleAt the object whose        *)
(* allocation ran the latest cycle (0: no cycle yet).  The smallest        *)
(* threshold, 1024 in gcAlloc, is taken as GcFloor so that cycles are      *)
(* triggered within the heaps explored.                                    *)

GcFloor == 3
AllocLocals == 2
AllocTemps == 1
AllocObjs == 10

\* markRoots over the roots as they are in the middle of an instruction
markRootsOf(g, s, gl, open, fr) ==
  MarkValues(MarkValues(MarkValues(MarkValues(g, s), TableValuesOf(gl, 1)),
                        [k \in 1..Len(open) |-> Obj(open[k])]),
             [k \in 1..Len(fr) |-> Obj(fr[k].closure)])

\* the objects handed to gcAlloc since the allocation that ran the latest cycle
Since(h, at) ==
  Cardinality({o \in (at + 1)..Len(h) : h[o].kind \in {"closure", "upvalue"}})

\* the objects the running instruction has created, the one gcAlloc was
\* handed included, that are neither tracked nor held by a stack slot or the
\* open upvalue list
Limbo(a, s) ==
  {o \in a.created \cup {Len(a.heap) + 1} :
     /\ o \notin a.gc.objects
     /\ \A i \in DOMAIN s : s[i] # Obj(o)
     /\ \A k \in DOMAIN a.open : a.open[k] # o}

\* gcAlloc: the cycle has run, allocCount = 0 and the new threshold
Collected(a, g) ==
  [a EXCEPT !.gc = g, !.allocCount = 0,
            !.gcThreshold = Max(Cardinality(g.objects) * 2, GcFloor),
            !.cycleAt = Len(a.heap) + 1]

\* gcAlloc that runs the cycle one allocation early
Counted_early(a, s) ==
  IF a.allocCount + 1 >= a.gcThreshold
  THEN Collected(a, sweep(traceReferences(
                   markRootsOf(a.gc, s, globals, a.open, frames), a.heap)))
  ELSE [a EXCEPT !.allocCount = @ + 1]

\* gcAlloc: allocCount++, and the cycle if allocCount > gcThreshold
Counted(a, s) ==
  IF a.allocCount + 1 > a.gcThreshold
  THEN Collected(a, sweep(traceReferences(
                   markRootsOf(a.gc, s, globals, a.open, frames), a.heap)))
  ELSE [a EXCEPT !.allocCount = @ + 1]

\* gcAlloc: return this.gc.alloc(obj).  a is the VM before the call, b after
\* the count and the cycle; the call is logged
Registered(b, a, s, obj) ==
  [b EXCEPT !.heap = Append(@, obj),
            !.gc = Alloc(b.heap, b.gc, obj).gc,
            !.id = Len(b.heap) + 1,
            !.created = @ \cup {Len(b.heap) + 1},
            !.log = Append(@, [id |-> Len(b.heap) + 1,
                               since |-> Since(a.heap, a.cycleAt) + 1,
                               threshold |-> a.gcThreshold,
                               ran |-> b.cycleAt # a.cycleAt,
                               limbo |-> IF b.cycleAt # a.cycleAt THEN Limbo(a, s) ELSE {},
                               survivors |-> Cardinality(a.gc.objects \cap b.gc.objects),
                               allocCount |-> b.allocCount,
                               gcThreshold |-> b.gcThreshold])]

\* gcAlloc(obj), called while the stack is s
gcAlloc(a, s, obj) == Registered(Counted(a, s), a, s, obj)

\* captureUpvalue: the new upvalue is linked into the open list at place i
Linked(b, i) ==
  [b EXCEPT !.open = SubSeq(@, 1, i - 1) \o <<b.id>> \o SubSeq(@, i, Len(@))]

\* captureUpvalue over gcAlloc
captureUpvalueAt(a, s, location, i) ==
  IF i <= Len(a.open) /\ a.heap[a.open[i]].location = location
  THEN [a EXCEPT !.id = a.open[i]]
  ELSE Linked(gcAlloc(a, s, UpvalueObj(location)), i)

\* closure.upvalues.push(...)
Pushed(b, closure) == [b EXCEPT !.heap[closure].upvalues = Append(@, b.id)]

\* the loop of OP_CLOSURE over gcAlloc
RECURSIVE CaptureAllAlloc(_, _, _, _, _)
CaptureAllAlloc(a, s, ups, i, closure) ==
  IF i > Len(ups) THEN a
  ELSE IF ups[i].isLocal
  THEN CaptureAllAlloc(
         Pushed(captureUpvalueAt(a, s, currentFrame.base + ups[i].index,
                   CaptureScan(a.heap, a.open, currentFrame.base + ups[i].index, 1)),
                closure),
         s, ups, i + 1, closure)
  ELSE CaptureAllAlloc(
         [a EXCEPT !.heap[closure].upvalues =
                      Append(@, heap[currentFrame.closure].upvalues[ups[i].index + 1])],
         s, ups, i + 1, closure)

\* the VM as an instruction finds it
AllocState ==
  [heap |-> heap, gc |-> gc, open |-> openUpvalues,
   allocCount |-> comp.allocCount, gcThreshold |-> comp.gcThreshold,
   cycleAt |-> comp.cycleAt, id |-> 0, created |-> {}, log |-> <<>>]

\* the instruction's effects are stored
Stored(a, closure) ==
  /\ stack' = Append(stack, Obj(closure))
  /\ heap' = a.heap
  /\ gc' = a.gc
  /\ openUpvalues' = a.open
  /\ comp' = [comp EXCEPT !.allocCount = a.allocCount,
                          !.gcThreshold = a.gcThreshold, !.cycleAt = a.cycleAt]
  /\ last' = [op |-> "OP_CLOSURE", id |-> closure, allocs |-> a.log]

\* OP_CLOSURE over gcAlloc: the closure is allocated and pushed, then its
\* upvalues are captured
OpClosureAlloc(fn) ==
  /\ Running
  /\ \A k \in 1..Len(Functions[fn].upvalues) : CanCapture(Functions[fn].upvalues[k])
  /\ Stored(CaptureAllAlloc(gcAlloc(AllocState, stack, ClosureObj(fn, <<>>)),
                            Append(stack, Obj(Len(heap) + 1)),
                            Functions[fn].upvalues, 1, Len(heap) + 1),
            Len(heap) + 1)
  /\ UNCHANGED <<frames, globals, result>>

AllocInit ==
  /\ tbl = NewTable
  /\ shadow = [k \in Keys |-> UNDEFINED]
  /\ stack = <<Obj(2)>>
  /\ frames = VmStartFrames
  /\ globals = VmStartGlobals
  /\ openUpvalues = <<>>
  /\ heap = VmStartHeap
  /\ result = "running"
  /\ last = [op |-> "none"]
  /\ comp = [op |-> "alloc", allocCount |-> 1, gcThreshold |-> GcFloor, cycleAt |-> 0]
  /\ gc = VmStartGc

AllocStep ==
  /\ FrameWithin(AllocLocals, AllocTemps)'
  /\ Len(heap') <= AllocObjs
  /\ UNCHANGED tableVars

\* The programs explored: blocks { var x = 1; ... } in which closures that
\* capture x and closures that capture nothing are created and then dropped
\* or kept in global a; class A {} is allocated through gc.alloc.
AllocNext ==
  \/ OpConstant(Num(1)) /\ Temps = 0 /\ NumLocals = 1 /\ AllocStep /\ UNCHANGED comp
  \/ DeclareLocal /\ peek(stack, 0) = Num(1) /\ AllocStep /\ UNCHANGED comp
  \/ OpClosureAlloc(Factory) /\ AllocStep
  \/ OpClosureAlloc(Accessor) /\ AllocStep
  \/ OpClass("A") /\ Len(heap) = Len(VmStartHeap) /\ AllocStep /\ UNCHANGED comp
  \/ OpPop /\ AllocStep /\ UNCHANGED comp
  \/ OpCloseUpvalue /\ AllocStep /\ UNCHANGED comp
  \/ OpDefineGlobal("a") /\ AllocStep /\ UNCHANGED comp

SpecAlloc == AllocInit /\ [][AllocNext]_vars

---------------------------------------------------------------------------
(* Inheritance: a script that creates classes, gives them methods, makes   *)
(* one inherit from another and then changes the superclass's methods.     *)

InheritTemps == 2
InheritObjs == 8

InheritStep ==
  /\ FrameWithin(1, InheritTemps)'
  /\ Len(heap') <= InheritObjs
  /\ UNCHANGED <<tableVars, frontVars>>

InheritNext ==
  \/ \E name \in {"A", "B"} : OpClass(name) /\ InheritStep
  \/ OpClosure(Factory) /\ IsObj(peek(stack, 0), "class") /\ InheritStep
  \/ \E n \in MethodNames : OpMethod(n) /\ InheritStep
  \/ OpInherit /\ InheritStep
  \/ OpPop /\ InheritStep
  \/ \E c \in Classes(heap), n \in MethodNames : MethodsDelete(c, n) /\ InheritStep

SpecInherit == VmInit /\ [][InheritNext]_vars

---------------------------------------------------------------------------
(* Assignment: a script that declares a local in a block, creates an       *)
(* accessor over it, and assigns to the local, to a global and, in the     *)
(* accessor, to the captured variable.  Global a holds a number, global q  *)
(* an accessor.                                                            *)

AssignLocals == 2
AssignTemps == 1
AssignObjs == 4

AssignStep ==
  /\ FrameWithin(AssignLocals, AssignTemps)'
  /\ Len(heap') <= AssignObjs
  /\ UNCHANGED <<tableVars, frontVars>>

AssignNext ==
  \/ \E v \in ConstValues : OpConstant(v) /\ AssignStep
  \/ OpPop /\ AssignStep
  \/ DeclareLocal /\ InFn(1) /\ AssignStep
  \/ OpGetLocal(1) /\ AssignStep
  \/ OpSetLocal(1) /\ AssignStep
  \/ OpDefineGlobal("a") /\ InFn(1) /\ peek(stack, 0) \in ConstValues /\ AssignStep
  \/ OpDefineGlobal("q") /\ InFn(1) /\ IsClosureOf(peek(stack, 0), Accessor) /\ AssignStep
  \/ \E n \in ClosureNames :
        OpGetGlobal(n) /\ InFn(1) /\ TableGet(globals, n) # UNDEFINED /\ AssignStep
  \/ OpSetGlobal("a") /\ InFn(1) /\ peek(stack, 0) \in ConstValues /\ AssignStep
  \/ OpClosure(Accessor) /\ InFn(1) /\ AssignStep
  \/ OpCall(0) /\ InFn(1) /\ IsObj(peek(stack, 0), "closure") /\ AssignStep
  \/ OpGetUpvalue(0) /\ AssignStep
  \/ OpSetUpvalue(0) /\ AssignStep
  \/ OpCloseUpvalue /\ AssignStep
  \/ OpReturn /\ Len(frames) > 1 /\ AssignStep

SpecAssign == VmInit /\ [][AssignNext]_vars

---------------------------------------------------------------------------
(* Calls: a script that calls closures, the native clock, classes with and *)
(* without init, and bound methods, with zero or one argument.             *)

CallTemps == 2
CallObjs == 8
CallFrames == 2

CallStep ==
  /\ FrameWithin(2, CallTemps)'
  /\ Len(heap') <= CallObjs
  /\ Len(frames') <= CallFrames
  /\ UNCHANGED <<tableVars, frontVars>>

CallNext ==
  \/ OpConstant(Num(1)) /\ CallStep
  \/ OpPop /\ CallStep
  \/ OpGetGlobal("clock") /\ InFn(1) /\ CallStep
  \/ \E fn \in {2, 3} : OpClosure(fn) /\ InFn(1) /\ CallStep
  \/ OpClass("A") /\ InFn(1) /\ CallStep
  \/ \E n \in {"init", "m"} : OpMethod(n) /\ CallStep
  \/ OpGetProperty("m") /\ IsObj(peek(stack, 0), "instance") /\ CallStep
  \/ \E argCount \in 0..1 : OpCall(argCount) /\ InFn(1) /\ CallStep
  \/ OpReturn /\ Len(frames) > 1 /\ CallStep

SpecCall == VmInit /\ [][CallNext]_vars

---------------------------------------------------------------------------
(* Deep recursion: fun a() { a(); } a();  with returns where a call could  *)
(* have been.                                                              *)

DeepStack == 66

DeepStep ==
  /\ FrameWithin(1, 1)'
  /\ Within(DeepStack, Len(VmStartHeap) + 1)'
  /\ UNCHANGED <<tableVars, frontVars>>

DeepNext ==
  \/ OpClosure(Factory) /\ DeepStep
  \/ OpDefineGlobal("a") /\ DeepStep
  \/ OpGetGlobal("a") /\ DeepStep
  \/ OpCall(0) /\ DeepStep
  \/ OpConstant(NIL) /\ DeepStep
  \/ OpReturn /\ DeepStep
  \/ OpPop /\ DeepStep

SpecDeep == VmInit /\ [][DeepNext]_vars

---------------------------------------------------------------------------
(* Properties: a script that creates a class with a method m of no or one   *)
(* parameter, creates instances, keeps one in global a, sets fields m and  *)
(* x to a number or a closure, reads properties m and x of instances,      *)
(* numbers and classes, and calls m with no or one argument, through       *)
(* OP_INVOKE and through OP_GET_PROPERTY and OP_CALL.                       *)

PropTemps == 2
PropObjs == 8
PropNames == {"m", "x"}

PropStep ==
  /\ FrameWithin(2, PropTemps)'
  /\ Len(heap') <= PropObjs
  /\ Len(frames') <= 2
  /\ UNCHANGED <<tableVars, frontVars>>

PropNext ==
  \/ OpClass("A") /\ InFn(1) /\ PropStep
  \/ /\ \E fn \in {2, 3} : OpClosure(fn)
     /\ InFn(1)
     /\ IsObj(peek(stack, 0), "class") \/ IsObj(peek(stack, 0), "instance")
     /\ PropStep
  \/ OpMethod("m") /\ PropStep
  \/ \E argCount \in 0..1 : OpCall(argCount) /\ InFn(1) /\ PropStep
  \/ \E argCount \in 0..1 : OpInvoke("m", argCount) /\ InFn(1) /\ PropStep
  \/ OpConstant(Num(1)) /\ PropStep
  \/ /\ \E n \in PropNames : OpSetProperty(n)
     /\ InFn(1)
     /\ peek(stack, 0) = Num(1) \/ IsObj(peek(stack, 0), "closure")
     /\ PropStep
  \/ \E n \in PropNames : OpGetProperty(n) /\ InFn(1) /\ PropStep
  \/ OpDefineGlobal("a") /\ IsObj(peek(stack, 0), "instance") /\ PropStep
  \/ OpGetGlobal("a") /\ InFn(1) /\ TableGet(globals, "a") # UNDEFINED /\ PropStep
  \/ OpPop /\ PropStep
  \/ OpReturn /\ Len(frames) > 1 /\ PropStep

SpecProp == VmInit /\ [][PropNext]_vars

---------------------------------------------------------------------------
(* The front end.  A source text is the sequence of its characters; a      *)
(* token is [type, start, length, line, message] with start 0-based, as in *)
(* VmToken and VmErrorToken; the VmScanner is [source, start, current,     *)
(* line].                                                                  *)

\* /[a-zA-Z_]/ and /[0-9]/
AlphaChars ==
  {"a", "b", "c", "d", "e", "f", "g", "h", "i", "j", "k", "l", "m", "n", "o", "p",
   "q", "r", "s", "t", "u", "v", "w", "x", "y", "z", "_",
   "A", "B", "C", "D", "E", "F", "G", "H", "I", "J", "K", "L", "M", "N", "O", "P",
   "Q", "R", "S", "T", "U", "V", "W", "X", "Y", "Z"}
DigitChars == {"0", "1", "2", "3", "4", "5", "6", "7", "8", "9"}

isAlpha(c) == c \in AlphaChars
isDigit(c) == c \in DigitChars
isAlphaNumeric(c) == isAlpha(c) \/ isDigit(c)

\* source.slice(from, to) for 0-based from <= to, cut at the end of the text
Slice(source, from, to) ==
  SubSeq(source, from + 1, IF to > Len(source) THEN Len(source) ELSE to)

\* the texts made of at most n of the given pieces
RECURSIVE Texts(_, _)
Texts(pieces, n) ==
  IF n = 0 THEN {<<>>}
  ELSE LET shorter == Texts(pieces, n - 1)
       IN shorter \cup {t \o p : t \in shorter, p \in pieces}

\* getLexeme(source, token)
getLexeme(source, token) == Slice(source, token.start, token.start + token.length)

\* new VmScanner(source)
NewScanner(source) == [source |-> source, start |-> 0, current |-> 0, line |-> 1]

isAtEnd(sc) == sc.current >= Len(sc.source)

\* peek() and peekNext(): source[i] ?? '\0'
CharAt(sc, i) == IF i < Len(sc.source) THEN sc.source[i + 1] ELSE "\\0"
peekChar(sc) == CharAt(sc, sc.current)
peekNext(sc) == CharAt(sc, sc.current + 1)

makeToken(sc, type) ==
  [type |-> type, start |-> sc.start, length |-> sc.current - sc.start,
   line |-> sc.line, message |-> <<>>]

\* errorToken that carries no message
errorToken_mute(sc, message) ==
  [type |-> "ERROR", start |-> sc.start, length |-> 0, line |-> sc.line,
   message |-> <<>>]

errorToken(sc, message) ==
  [type |-> "ERROR", start |-> sc.start, length |-> 0, line |-> sc.line,
   message |-> message]

\* the loop of a line comment: while (peek() !== '\n' && !isAtEnd()) advance()
RECURSIVE SkipLine(_)
SkipLine(sc) ==
  IF peekChar(sc) # "\n" /\ ~isAtEnd(sc)
  THEN SkipLine([sc EXCEPT !.current = @ + 1])
  ELSE sc

RECURSIVE skipWhitespace(_)
skipWhitespace(sc) ==
  LET c == peekChar(sc) IN
  IF c \in {" ", "\r", "\t"} THEN skipWhitespace([sc EXCEPT !.current = @ + 1])
  ELSE IF c = "\n" THEN skipWhitespace([sc EXCEPT !.line = @ + 1, !.current = @ + 1])
  ELSE IF c = "/" /\ peekNext(sc) = "/" THEN skipWhitespace(SkipLine(sc))
  ELSE sc

\* string(): the scanner after the loop, then the token
RECURSIVE StringBody(_)
StringBody(sc) ==
  IF peekChar(sc) # "\"" /\ ~isAtEnd(sc)
  THEN StringBody([sc EXCEPT !.line = IF peekChar(sc) = "\n" THEN @ + 1 ELSE @,
                             !.current = @ + 1])
  ELSE sc

string(sc) ==
  LET b == StringBody(sc) IN
  IF isAtEnd(b) THEN [sc |-> b, token |-> errorToken(b, <<"Unterminated string.">>)]
  ELSE LET e == [b EXCEPT !.current = @ + 1]
       IN [sc |-> e, token |-> makeToken(e, "STRING")]

RECURSIVE Digits(_)
Digits(sc) == IF isDigit(peekChar(sc)) THEN Digits([sc EXCEPT !.current = @ + 1]) ELSE sc

number(sc) ==
  LET a == Digits(sc)
      b == IF peekChar(a) = "." /\ isDigit(peekNext(a))
           THEN Digits([a EXCEPT !.current = @ + 1]) ELSE a
  IN [sc |-> b, token |-> makeToken(b, "NUMBER")]

\* the keywords object literal of identifierType
Keywords ==
  { <<<<"a", "n", "d">>, "AND">>, <<<<"c", "l", "a", "s", "s">>, "CLASS">>,
    <<<<"e", "l", "s", "e">>, "ELSE">>, <<<<"f", "a", "l", "s", "e">>, "FALSE">>,
    <<<<"f", "o", "r">>, "FOR">>, <<<<"f", "u", "n">>, "FUN">>,
    <<<<"i", "f">>, "IF">>, <<<<"n", "i", "l">>, "NIL">>, <<<<"o", "r">>, "OR">>,
    <<<<"p", "r", "i", "n", "t">>, "PRINT">>,
    <<<<"r", "e", "t", "u", "r", "n">>, "RETURN">>,
    <<<<"s", "u", "p", "e", "r">>, "SUPER">>, <<<<"t", "h", "i", "s">>, "THIS">>,
    <<<<"t", "r", "u", "e">>, "TRUE">>, <<<<"v", "a", "r">>, "VAR">>,
    <<<<"w", "h", "i", "l", "e">>, "WHILE">> }

\* property names every object literal inherits from Object.prototype: the
\* lookup keywords[word] finds them, and the value found is no TokenType
InheritedProperties ==
  { <<"c", "o", "n", "s", "t", "r", "u", "c", "t", "o", "r">>,
    <<"t", "o", "S", "t", "r", "i", "n", "g">>,
    <<"v", "a", "l", "u", "e", "O", "f">>,
    <<"t", "o", "L", "o", "c", "a", "l", "e", "S", "t", "r", "i", "n", "g">>,
    <<"h", "a", "s", "O", "w", "n", "P", "r", "o", "p", "e", "r", "t", "y">>,
    <<"i", "s", "P", "r", "o", "t", "o", "t", "y", "p", "e", "O", "f">>,
    <<"p", "r", "o", "p", "e", "r", "t", "y", "I", "s", "E", "n", "u", "m", "e", "r", "a", "b", "l", "e">>,
    <<"_", "_", "p", "r", "o", "t", "o", "_", "_">>,
    <<"_", "_", "d", "e", "f", "i", "n", "e", "G", "e", "t", "t", "e", "r", "_", "_">>,
    <<"_", "_", "d", "e", "f", "i", "n", "e", "S", "e", "t", "t", "e", "r", "_", "_">>,
    <<"_", "_", "l", "o", "o", "k", "u", "p", "G", "e", "t", "t", "e", "r", "_", "_">>,
    <<"_", "_", "l", "o", "o", "k", "u", "p", "S", "e", "t", "t", "e", "r", "_", "_">> }

\* identifierType(): keywords[word] ?? TokenType.IDENTIFIER
identifierType(sc) ==
  LET word == Slice(sc.source, sc.start, sc.current) IN
  IF \E k \in Keywords : k[1] = word THEN (CHOOSE k \in Keywords : k[1] = word)[2]
  ELSE IF word \in InheritedProperties THEN "Object.prototype member"
  ELSE "IDENTIFIER"

RECURSIVE IdentifierBody(_)
IdentifierBody(sc) ==
  IF isAlphaNumeric(peekChar(sc)) THEN IdentifierBody([sc EXCEPT !.current = @ + 1]) ELSE sc

identifier(sc) ==
  LET b == IdentifierBody(sc) IN [sc |-> b, token |-> makeToken(b, identifierType(b))]

\* the token types of the one-character cases of the switch
SingleChar ==
  { <<"(", "LEFT_PAREN">>, <<")", "RIGHT_PAREN">>, <<"{", "LEFT_BRACE">>,
    <<"}", "RIGHT_BRACE">>, <<";", "SEMICOLON">>, <<",", "COMMA">>, <<".", "DOT">>,
    <<"-", "MINUS">>, <<"+", "PLUS">>, <<"/", "SLASH">>, <<"*", "STAR">> }

\* the cases that test match('=')
WithEqual ==
  { <<"!", "BANG", "BANG_EQUAL">>, <<"=", "EQUAL", "EQUAL_EQUAL">>,
    <<"<", "LESS", "LESS_EQUAL">>, <<">", "GREATER", "GREATER_EQUAL">> }

\* scanToken(): the scanner afterwards and the token returned
scanToken(sc0) ==
  LET w == skipWhitespace(sc0)
      s == [w EXCEPT !.start = w.current]
  IN IF isAtEnd(s) THEN [sc |-> s, token |-> makeToken(s, "EOF")]
     ELSE LET c == peekChar(s)
              a == [s EXCEPT !.current = @ + 1]
          IN IF isAlpha(c) THEN identifier(a)
             ELSE IF isDigit(c) THEN number(a)
             ELSE IF \E k \in SingleChar : k[1] = c
             THEN [sc |-> a, token |-> makeToken(a, (CHOOSE k \in SingleChar : k[1] = c)[2])]
             ELSE IF \E k \in WithEqual : k[1] = c
             THEN LET k == CHOOSE k \in WithEqual : k[1] = c
                  IN IF peekChar(a) = "=" /\ ~isAtEnd(a)
                     THEN LET m == [a EXCEPT !.current = @ + 1]
                          IN [sc |-> m, token |-> makeToken(m, k[3])]
                     ELSE [sc |-> a, token |-> makeToken(a, k[2])]
             ELSE IF c = "\"" THEN string(a)
             ELSE [sc |-> a, token |-> errorToken(a, <<"Unexpected character", c>>)]

---------------------------------------------------------------------------
(* The Compiler.  Its state is the record of its fields: source, scanner,  *)
(* current, previous, hadError, panicMode and the chunk (code, constants,  *)
(* lines).  errors lists what errorAt printed during the call, each with   *)
(* the place of its token in the text; depth                               *)
(* counts the activations of parsePrecedence on the host's call stack and  *)
(* thrown tells that an exception is unwinding the call, after which no    *)
(* method does anything.  decl counts the calls of declaration() and     *)
(* muted holds the declarations in which errorAt was called in panic mode  *)
(* and printed nothing.  grammar is "expression" for the compiler of      *)
(* Compiler.ts and "program" for the one that parses declarations.         *)

\* the nested activations of parsePrecedence the host's call stack holds:
\* the engine's limit is finite, and one more activation throws RangeError
HostStackDepth == 2

\* a field that holds undefined (current and previous before the first advance)
NoToken == [type |-> "undefined", start |-> 0, length |-> 0, line |-> 0, message |-> <<>>]

\* new Compiler()
NewCompiler ==
  [source |-> <<>>, sc |-> NewScanner(<<>>), current |-> NoToken, previous |-> NoToken,
   hadError |-> FALSE, panicMode |-> FALSE, code |-> <<>>, constants |-> <<>>,
   lines |-> <<>>, errors |-> <<>>, depth |-> 0, thrown |-> FALSE,
   grammar |-> "expression", decl |-> 0, muted |-> {}]

\* enum Precedence
PREC_NONE == 0
PREC_ASSIGNMENT == 1
PREC_EQUALITY == 4
PREC_COMPARISON == 5
PREC_TERM == 6
PREC_FACTOR == 7
PREC_UNARY == 8

\* the rules table: <<type, prefix, infix, precedence>>
Rules ==
  { <<"LEFT_PAREN", "grouping", "none", PREC_NONE>>,
    <<"MINUS", "unary", "binary", PREC_TERM>>,
    <<"PLUS", "none", "binary", PREC_TERM>>,
    <<"SLASH", "none", "binary", PREC_FACTOR>>,
    <<"STAR", "none", "binary", PREC_FACTOR>>,
    <<"BANG", "unary", "none", PREC_NONE>>,
    <<"BANG_EQUAL", "none", "binary", PREC_EQUALITY>>,
    <<"EQUAL_EQUAL", "none", "binary", PREC_EQUALITY>>,
    <<"GREATER", "none", "binary", PREC_COMPARISON>>,
    <<"GREATER_EQUAL", "none", "binary", PREC_COMPARISON>>,
    <<"LESS", "none", "binary", PREC_COMPARISON>>,
    <<"LESS_EQUAL", "none", "binary", PREC_COMPARISON>>,
    <<"NUMBER", "number", "none", PREC_NONE>>,
    <<"FALSE", "literal", "none", PREC_NONE>>,
    <<"TRUE", "literal", "none", PREC_NONE>>,
    <<"NIL", "literal", "none", PREC_NONE>> }

\* the rule the program grammar registers for IDENTIFIER
ProgramRules == {<<"IDENTIFIER", "variable", "none", PREC_NONE>>}

\* getRule(type): this.rules[type] ?? NONE_RULE
getRule(c, type) ==
  LET rules == IF c.grammar = "program" THEN Rules \cup ProgramRules ELSE Rules IN
  IF \E r \in rules : r[1] = type
  THEN LET r == CHOOSE r \in rules : r[1] = type
       IN [prefix |-> r[2], infix |-> r[3], precedence |-> r[4]]
  ELSE [prefix |-> "none", infix |-> "none", precedence |-> PREC_NONE]

\* errorAt(token, message)
errorAt(c, token, message) ==
  IF c.thrown THEN c
  ELSE IF c.panicMode THEN [c EXCEPT !.muted = @ \cup {c.decl}]
  ELSE [c EXCEPT !.panicMode = TRUE, !.hadError = TRUE,
                 !.errors = Append(@, [line |-> token.line, message |-> message,
                                       start |-> token.start, decl |-> c.decl])]

\* the loop of advance(): scan until a token that is no ERROR
RECURSIVE AdvanceLoop(_)

\* this.current = this.scanner.scanToken()
Scanned(c, r) == [c EXCEPT !.sc = r.sc, !.current = r.token]

\* if (this.current.type !== ERROR) break; errorAtCurrent(message)
AfterScan(c) ==
  IF c.current.type # "ERROR" THEN c
  ELSE AdvanceLoop(errorAt(c, c.current, c.current.message))

AdvanceLoop(c) == AfterScan(Scanned(c, scanToken(c.sc)))

\* advance()
advance(c) == IF c.thrown THEN c ELSE AdvanceLoop([c EXCEPT !.previous = c.current])

\* consume(type, message)
consume(c, type, message) ==
  IF c.thrown THEN c
  ELSE IF c.current.type = type THEN advance(c)
  ELSE errorAt(c, c.current, message)

\* emitByte(byte): chunk.write(byte, this.previous.line); reading the line
\* of an undefined previous throws TypeError
emitByte(c, byte) ==
  IF c.thrown THEN c
  ELSE IF c.previous.type = "undefined" THEN [c EXCEPT !.thrown = TRUE]
  ELSE [c EXCEPT !.code = Append(@, byte), !.lines = Append(@, c.previous.line)]

\* emitBytes(b1, b2)
emitBytes(c, b1, b2) == emitByte(emitByte(c, b1), b2)

\* emitConstant(value), with chunk.addConstant
\* a variant of emitConstant(value) whose operand is the number of constants
emitConstant_count(c, value) ==
  IF c.thrown THEN c
  ELSE LET c1 == [c EXCEPT !.constants = Append(@, value)]
           idx == Len(c1.constants)
       IN IF idx > 255 THEN errorAt(c1, c1.previous, <<"Too many constants in one chunk.">>)
          ELSE emitBytes(c1, "OP_CONSTANT", ToString(idx))

emitConstant(c, value) ==
  IF c.thrown THEN c
  ELSE LET c1 == [c EXCEPT !.constants = Append(@, value)]
           idx == Len(c1.constants) - 1
       IN IF idx > 255 THEN errorAt(c1, c1.previous, <<"Too many constants in one chunk.">>)
          ELSE emitBytes(c1, "OP_CONSTANT", ToString(idx))

\* parseFloat of the lexeme of a NUMBER token without fraction
RECURSIVE parseFloat(_)
parseFloat(chars) ==
  IF chars = <<>> THEN 0
  ELSE 10 * parseFloat(SubSeq(chars, 1, Len(chars) - 1))
         + (CHOOSE d \in 0..9 : ToString(d) = chars[Len(chars)])

\* the bytes binaryFn emits for an operator
BinaryCode(operatorType) ==
  CASE operatorType = "PLUS" -> <<"OP_ADD">>
    [] operatorType = "MINUS" -> <<"OP_SUBTRACT">>
    [] operatorType = "STAR" -> <<"OP_MULTIPLY">>
    [] operatorType = "SLASH" -> <<"OP_DIVIDE">>
    [] operatorType = "BANG_EQUAL" -> <<"OP_EQUAL", "OP_NOT">>
    [] operatorType = "EQUAL_EQUAL" -> <<"OP_EQUAL">>
    [] operatorType = "GREATER" -> <<"OP_GREATER">>
    [] operatorType = "GREATER_EQUAL" -> <<"OP_LESS", "OP_NOT">>
    [] operatorType = "LESS" -> <<"OP_LESS">>
    [] operatorType = "LESS_EQUAL" -> <<"OP_GREATER", "OP_NOT">>
    [] OTHER -> <<>>

\* the byte unaryFn emits for an operator
UnaryCode(operatorType) ==
  CASE operatorType = "MINUS" -> <<"OP_NEGATE">>
    [] operatorType = "BANG" -> <<"OP_NOT">>
    [] OTHER -> <<>>

RECURSIVE EmitAll(_, _)
EmitAll(c, bytes) ==
  IF bytes = <<>> THEN c ELSE EmitAll(emitByte(c, Head(bytes)), Tail(bytes))

RECURSIVE parsePrecedence(_, _)

\* expression()
expression(c) == parsePrecedence(c, PREC_ASSIGNMENT)

\* numberFn
numberFn(c) ==
  emitConstant(c, [t |-> "number", v |-> parseFloat(getLexeme(c.source, c.previous))])

\* groupingFn
groupingFn(c) == consume(expression(c), "RIGHT_PAREN", "Expect ')' after expression.")

\* unaryFn
unaryFn(c) == EmitAll(parsePrecedence(c, PREC_UNARY), UnaryCode(c.previous.type))

\* binaryFn
binaryFn(c) ==
  LET operatorType == c.previous.type
      rule == getRule(c, operatorType)
      c1 == parsePrecedence(c, rule.precedence + 1)
  IN EmitAll(c1, BinaryCode(operatorType))

\* literalFn
literalFn(c) ==
  IF c.previous.type = "FALSE" THEN emitByte(c, "OP_FALSE")
  ELSE IF c.previous.type = "TRUE" THEN emitByte(c, "OP_TRUE")
  ELSE IF c.previous.type = "NIL" THEN emitByte(c, "OP_NIL")
  ELSE c

\* identifierConstant(name): the index of the name in the constant table
identifierConstant(c, name) ==
  IF c.thrown THEN [c |-> c, index |-> 0]
  ELSE LET c1 == [c EXCEPT !.constants = Append(@, [t |-> "string", chars |-> getLexeme(c.source, name)])]
           idx == Len(c1.constants) - 1
       IN IF idx > 255
          THEN [c |-> errorAt(c1, c1.previous, <<"Too many constants in one chunk.">>), index |-> 0]
          ELSE [c |-> c1, index |-> idx]

\* match(type)
match(c, type) ==
  IF c.thrown \/ c.current.type # type THEN [c |-> c, matched |-> FALSE]
  ELSE [c |-> advance(c), matched |-> TRUE]

\* namedVariable(name, canAssign), called by variable(canAssign)
\* the two branches of namedVariable, m the outcome of match(EQUAL)
SetOrGet(m, arg) ==
  IF m.matched
  THEN emitBytes(expression(m.c), "OP_SET_GLOBAL", ToString(arg))
  ELSE emitBytes(m.c, "OP_GET_GLOBAL", ToString(arg))

namedVariable(c, name, canAssign) ==
  LET arg == identifierConstant(c, name)
  IN SetOrGet(IF canAssign THEN match(arg.c, "EQUAL") ELSE [c |-> arg.c, matched |-> FALSE],
              arg.index)

\* the call of a prefix or infix parse function; calling a rule's missing
\* function throws TypeError
ParseFn(c, fn, canAssign) ==
  CASE fn = "number" -> numberFn(c)
    [] fn = "grouping" -> groupingFn(c)
    [] fn = "unary" -> unaryFn(c)
    [] fn = "binary" -> binaryFn(c)
    [] fn = "literal" -> literalFn(c)
    [] fn = "variable" -> namedVariable(c, c.previous, canAssign)
    [] OTHER -> IF c.thrown THEN c ELSE [c EXCEPT !.thrown = TRUE]

\* the while loop of parsePrecedence over the infix operators
RECURSIVE InfixLoop(_, _, _)

\* the body of the loop once advance() is done
InfixRule(c, precedence, canAssign) ==
  InfixLoop(ParseFn(c, getRule(c, c.previous.type).infix, canAssign), precedence, canAssign)

InfixLoop(c, precedence, canAssign) ==
  IF c.thrown \/ precedence > getRule(c, c.current.type).precedence THEN c
  ELSE InfixRule(advance(c), precedence, canAssign)

\* parsePrecedence(precedence); an activation beyond the host's stack
\* throws RangeError
\* the body of parsePrecedence once advance() is done
PrefixRule(c, precedence) ==
  LET prefixRule == getRule(c, c.previous.type).prefix
      canAssign == precedence <= PREC_ASSIGNMENT
  IN IF prefixRule = "none" THEN errorAt(c, c.previous, <<"Expect expression.">>)
     ELSE InfixLoop(ParseFn(c, prefixRule, canAssign), precedence, canAssign)

\* the activation of parsePrecedence ends, unless it is unwinding
Unwind(c, depth) == IF c.thrown THEN c ELSE [c EXCEPT !.depth = depth]

parsePrecedence(c, precedence) ==
  IF c.thrown THEN c
  ELSE IF c.depth >= HostStackDepth THEN [c EXCEPT !.thrown = TRUE]
  ELSE Unwind(PrefixRule(advance([c EXCEPT !.depth = @ + 1]), precedence), c.depth)

\* emitReturn()
emitReturn(c) == emitByte(c, "OP_RETURN")

\* return this.hadError ? null : this.chunk, unless the call threw
Outcome(c) ==
  [c |-> c,
   outcome |-> IF c.thrown THEN "throws" ELSE IF c.hadError THEN "null" ELSE "chunk"]

\* compile(source) of Compiler.ts: the compiler left by the call and what
\* the call gives its caller
compile_dirty(c0, source) ==
  LET c1 == [c0 EXCEPT !.source = source, !.sc = NewScanner(source),
                       !.code = <<>>, !.constants = <<>>, !.lines = <<>>,
                       !.panicMode = FALSE,
                       !.errors = <<>>, !.depth = 0, !.thrown = FALSE,
                       !.decl = 0, !.muted = {}]
  IN Outcome(emitReturn(consume(expression(advance(c1)), "EOF", "Expect end of expression.")))

compile(c0, source) ==
  LET c1 == [c0 EXCEPT !.source = source, !.sc = NewScanner(source),
                       !.code = <<>>, !.constants = <<>>, !.lines = <<>>,
                       !.hadError = FALSE, !.panicMode = FALSE,
                       !.errors = <<>>, !.depth = 0, !.thrown = FALSE,
                       !.decl = 0, !.muted = {}]
  IN Outcome(emitReturn(consume(expression(advance(c1)), "EOF", "Expect end of expression.")))

\* check(type)
check(c, type) == c.current.type = type

\* parseVariable(errorMessage)
PreviousConstant(c) == identifierConstant(c, c.previous)

parseVariable(c, errorMessage) == PreviousConstant(consume(c, "IDENTIFIER", errorMessage))

\* defineVariable(global)
defineVariable(c, global) == emitBytes(c, "OP_DEFINE_GLOBAL", ToString(global))

\* varDeclaration()
\* the initializer and the definition, m the outcome of match(EQUAL)
Initializer(m, global) ==
  defineVariable(consume(IF m.matched THEN expression(m.c) ELSE emitByte(m.c, "OP_NIL"),
                         "SEMICOLON", "Expect ';' after variable declaration."),
                 global)

VarAfterName(global) == Initializer(match(global.c, "EQUAL"), global.index)

varDeclaration(c) == VarAfterName(parseVariable(c, <<"Expect variable name.">>))

\* printStatement()
printStatement(c) ==
  emitByte(consume(expression(c), "SEMICOLON", "Expect ';' after value."), "OP_PRINT")

\* expressionStatement()
expressionStatement(c) ==
  emitByte(consume(expression(c), "SEMICOLON", "Expect ';' after expression."), "OP_POP")

\* statement()
StatementKind(m) == IF m.matched THEN printStatement(m.c) ELSE expressionStatement(m.c)

statement(c) == StatementKind(match(c, "PRINT"))

\* the token types before which synchronize stops
StatementStarts == {"CLASS", "FUN", "VAR", "FOR", "IF", "WHILE", "PRINT", "RETURN"}

\* the while loop of synchronize()
RECURSIVE SynchronizeLoop(_)
SynchronizeLoop(c) ==
  IF c.thrown \/ c.current.type = "EOF" THEN c
  ELSE IF c.previous.type = "SEMICOLON" THEN c
  ELSE IF c.current.type \in StatementStarts THEN c
  ELSE SynchronizeLoop(advance(c))

\* synchronize()
synchronize(c) ==
  IF c.thrown THEN c ELSE SynchronizeLoop([c EXCEPT !.panicMode = FALSE])

\* declaration()
DeclarationKind(m) == IF m.matched THEN varDeclaration(m.c) ELSE statement(m.c)

\* if (this.panicMode) this.synchronize()
Recover(c) == IF c.panicMode THEN synchronize(c) ELSE c

declaration(c0) ==
  Recover(DeclarationKind(match(IF c0.thrown THEN c0 ELSE [c0 EXCEPT !.decl = @ + 1],
                                "VAR")))

\* while (!check(EOF)) declaration()
RECURSIVE DeclarationLoop(_)
DeclarationLoop(c) ==
  IF c.thrown \/ check(c, "EOF") THEN c ELSE DeclarationLoop(declaration(c))

\* compile(source) once it parses a program: the assignments of compile()
\* in Compiler.ts, then the loop over the declarations
compileProgram(c0, source) ==
  LET c1 == [c0 EXCEPT !.source = source, !.sc = NewScanner(source),
                       !.code = <<>>, !.constants = <<>>, !.lines = <<>>,
                       !.hadError = FALSE, !.panicMode = FALSE,
                       !.errors = <<>>, !.depth = 0, !.thrown = FALSE,
                       !.decl = 0, !.muted = {}, !.grammar = "program"]
  IN Outcome(emitReturn(consume(DeclarationLoop(advance(c1)), "EOF",
                                 "Expect end of expression.")))

---------------------------------------------------------------------------
(* Resolving names.  A FunctionCompiler is the record of its type, locals, *)
(* upvalues and scopeDepth; the compilers in progress form a sequence, the *)
(* current one last, each one's enclosing compiler before it.  A local's   *)
(* text is the name it was declared under: the lexeme of its token for a   *)
(* variable of the program, the word given to syntheticToken for a hidden  *)
(* one, and empty for the slot kept for the function itself.               *)

\* source.indexOf(text): the first place of text in source, or -1
RECURSIVE IndexFrom(_, _, _)
IndexFrom(source, text, i) ==
  IF i + Len(text) > Len(source) THEN -1
  ELSE IF Slice(source, i, i + Len(text)) = text THEN i
  ELSE IndexFrom(source, text, i + 1)

indexOf(source, text) == IndexFrom(source, text, 0)

\* syntheticToken(text)
syntheticToken(source, text) ==
  LET start == indexOf(source, text)
  IN [type |-> "IDENTIFIER", start |-> IF start >= 0 THEN start ELSE 0,
      length |-> Len(text), line |-> 0, message |-> <<>>]

\* the word "this"
ThisText == <<"t", "h", "i", "s">>

\* a local of a FunctionCompiler
Local(name, depth, text) ==
  [name |-> name, depth |-> depth, isCaptured |-> FALSE, text |-> text]

\* a FunctionCompiler at the start of a function's body: slot 0 is "this"
\* in a method and nameless in a function
NewFunctionCompiler(source, type) ==
  [type |-> type,
   locals |-> IF type = "SCRIPT" THEN <<>>
              ELSE IF type = "METHOD"
                   THEN <<Local(syntheticToken(source, ThisText), 0, ThisText)>>
                   ELSE <<Local([type |-> "IDENTIFIER", start |-> 0, length |-> 0,
                                 line |-> 0, message |-> <<>>], 0, <<>>)>>,
   upvalues |-> <<>>,
   scopeDepth |-> IF type = "SCRIPT" THEN 0 ELSE 1]

\* beginScope()
beginScope(fc) == [fc EXCEPT !.scopeDepth = @ + 1]

\* the while loop of endScope()
RECURSIVE EndScopeLoop(_)
EndScopeLoop(fc) ==
  IF Len(fc.locals) > 0 /\ fc.locals[Len(fc.locals)].depth > fc.scopeDepth
  THEN EndScopeLoop([fc EXCEPT !.locals = SubSeq(@, 1, Len(@) - 1)])
  ELSE fc

\* endScope()
endScope(fc) == EndScopeLoop([fc EXCEPT !.scopeDepth = @ - 1])

\* a variant of the loop of endScope() that emits OP_POP for every local
RECURSIVE EndScopeCode_pop(_)
EndScopeCode_pop(fc) ==
  IF Len(fc.locals) > 0 /\ fc.locals[Len(fc.locals)].depth > fc.scopeDepth
  THEN <<"OP_POP">> \o EndScopeCode_pop([fc EXCEPT !.locals = SubSeq(@, 1, Len(@) - 1)])
  ELSE <<>>

\* the instructions the loop of endScope() emits, one for every local it
\* removes: OP_CLOSE_UPVALUE for a captured local, OP_POP otherwise
RECURSIVE EndScopeCode(_)
EndScopeCode(fc) ==
  IF Len(fc.locals) > 0 /\ fc.locals[Len(fc.locals)].depth > fc.scopeDepth
  THEN <<IF fc.locals[Len(fc.locals)].isCaptured THEN "OP_CLOSE_UPVALUE" ELSE "OP_POP">>
         \o EndScopeCode([fc EXCEPT !.locals = SubSeq(@, 1, Len(@) - 1)])
  ELSE <<>>

\* the instructions endScope() emits
endScopeCode(fc) == EndScopeCode([fc EXCEPT !.scopeDepth = @ - 1])

\* the operand-stack height after the VM ran the instructions of a scope exit:
\* OP_POP is pop(), OP_CLOSE_UPVALUE is closeUpvalues(stack.length - 1); pop()
RECURSIVE ScopeExitHeight(_, _)
ScopeExitHeight(height, code) ==
  IF code = <<>> THEN height
  ELSE IF Head(code) \in {"OP_POP", "OP_CLOSE_UPVALUE"}
       THEN ScopeExitHeight(height - 1, Tail(code))
       ELSE ScopeExitHeight(height, Tail(code))

\* addLocal(name)
addLocal(source, fc, name) ==
  IF Len(fc.locals) >= 256 THEN [fc |-> fc, error |-> TRUE]
  ELSE [fc |-> [fc EXCEPT !.locals = Append(@, Local(name, -1, getLexeme(source, name)))],
        error |-> FALSE]

\* the loop of declareVariable(): is the name declared in the current scope
RECURSIVE DeclaredInScope(_, _, _, _)
DeclaredInScope(source, fc, name, i) ==
  IF i < 0 THEN FALSE
  ELSE LET local == fc.locals[i + 1]
       IN IF local.depth # -1 /\ local.depth < fc.scopeDepth THEN FALSE
          ELSE \/ getLexeme(source, local.name) = getLexeme(source, name)
               \/ DeclaredInScope(source, fc, name, i - 1)

\* declareVariable()
declareVariable(source, fc, name) ==
  IF fc.scopeDepth = 0 THEN [fc |-> fc, error |-> FALSE]
  ELSE LET added == addLocal(source, fc, name)
       IN [fc |-> added.fc,
           error |-> added.error \/ DeclaredInScope(source, fc, name, Len(fc.locals) - 1)]

\* markInitialized()
markInitialized(fc) ==
  IF fc.scopeDepth = 0 THEN fc
  ELSE [fc EXCEPT !.locals[Len(fc.locals)].depth = fc.scopeDepth]

\* the loop of resolveLocal(): the last local whose lexeme is the name's
RECURSIVE ResolveScan(_, _, _, _)
ResolveScan(source, fc, name, i) ==
  IF i < 0 THEN -1
  ELSE IF getLexeme(source, fc.locals[i + 1].name) = getLexeme(source, name) THEN i
  ELSE ResolveScan(source, fc, name, i - 1)

\* resolveLocal(compiler, name)
resolveLocal(source, fc, name) ==
  LET index == ResolveScan(source, fc, name, Len(fc.locals) - 1)
  IN [index |-> index, error |-> index # -1 /\ fc.locals[index + 1].depth = -1]

\* addUpvalue(compiler, index, isLocal) on the compiler at a level
addUpvalue(cs, level, index, isLocal) ==
  LET ups == cs[level].upvalues
      same == {i \in 1..Len(ups) : ups[i].index = index /\ ups[i].isLocal = isLocal}
  IN IF same # {}
     THEN [cs |-> cs, index |-> (CHOOSE i \in same : \A j \in same : i <= j) - 1,
           error |-> FALSE]
     ELSE IF Len(ups) >= 256 THEN [cs |-> cs, index |-> 0, error |-> TRUE]
     ELSE [cs |-> [cs EXCEPT ![level].upvalues =
                       Append(@, [index |-> index, isLocal |-> isLocal])],
           index |-> Len(ups), error |-> FALSE]

\* resolveUpvalue(compiler, name) for the compiler at a level
RECURSIVE resolveUpvalue(_, _, _, _)
resolveUpvalue(source, cs, level, name) ==
  IF level = 1 THEN [cs |-> cs, index |-> -1, error |-> FALSE]
  ELSE
    LET local == resolveLocal(source, cs[level - 1], name)
    IN IF local.index # -1
       THEN LET added == addUpvalue([cs EXCEPT ![level - 1].locals[local.index + 1].isCaptured = TRUE],
                                    level, local.index, TRUE)
            IN [added EXCEPT !.error = @ \/ local.error]
       ELSE LET upvalue == resolveUpvalue(source, cs, level - 1, name)
            IN IF upvalue.index # -1
               THEN LET added == addUpvalue(upvalue.cs, level, upvalue.index, FALSE)
                    IN [added EXCEPT !.error = @ \/ upvalue.error]
               ELSE [cs |-> upvalue.cs, index |-> -1, error |-> upvalue.error]

\* the choice namedVariable(name, canAssign) makes for a read of the name:
\* the instruction, its operand (the lexeme for a global), the compilers
resolveVariable(source, cs, name) ==
  LET level == Len(cs)
      local == resolveLocal(source, cs[level], name)
  IN IF local.index # -1
     THEN [getOp |-> "OP_GET_LOCAL", arg |-> local.index, global |-> <<>>, cs |-> cs,
           error |-> local.error]
     ELSE LET upvalue == resolveUpvalue(source, cs, level, name)
          IN IF upvalue.index # -1
             THEN [getOp |-> "OP_GET_UPVALUE", arg |-> upvalue.index, global |-> <<>>,
                   cs |-> upvalue.cs, error |-> upvalue.error]
             ELSE [getOp |-> "OP_GET_GLOBAL", arg |-> 0, global |-> getLexeme(source, name),
                   cs |-> upvalue.cs, error |-> upvalue.error]

---------------------------------------------------------------------------
(* Scanning: a VmScanner over a text of a few characters, on which         *)
(* scanToken is called until it has returned EOF.                          *)

ScanLen == 4
ScanPieces == {<<"a">>, <<"1">>, <<"@">>, <<"\"">>, <<" ">>, <<"\n">>, <<";">>, <<"=">>}

ScanInit ==
  /\ tbl = NewTable
  /\ shadow = [k \in Keys |-> UNDEFINED]
  /\ stack = <<>>
  /\ frames = <<>>
  /\ globals = NewTable
  /\ openUpvalues = <<>>
  /\ heap = <<>>
  /\ result = "idle"
  /\ last = [op |-> "none"]
  /\ gc = NewGc
  /\ \E source \in Texts(ScanPieces, ScanLen) :
        comp = [op |-> "scan", sc |-> NewScanner(source), tokens |-> <<>>]

\* one call of scanToken by the scanner's user
ScanToken ==
  /\ IF comp.tokens = <<>> THEN TRUE ELSE comp.tokens[Len(comp.tokens)].type # "EOF"
  /\ LET r == scanToken(comp.sc)
     IN comp' = [comp EXCEPT !.sc = r.sc, !.tokens = Append(@, r.token)]
  /\ UNCHANGED <<tableVars, vmVars, gcVars>>

ScanNext == ScanToken

SpecScan == ScanInit /\ [][ScanNext]_vars

---------------------------------------------------------------------------
(* The VM of the arithmetic instructions (VM.run over a chunk without      *)
(* frames).  comp.ip counts the instructions dispatched; result is running *)
(* while run() loops, OK or RUNTIME_ERROR once it has returned, and Error  *)
(* once pop() has thrown.  A string value is kept by its length, so that   *)
(* concatenation adds the lengths.                                         *)

Bool(b)   == [t |-> "boolean", v |-> IF b THEN 1 ELSE 0]
Str(n)    == [t |-> "string", v |-> n]

RunSteps == 4
RunValues == {Num(1), Num(2), Str(1), NIL, Bool(TRUE)}

\* the functions given to binaryOp, by the instruction that passes them
BinaryOps == {"OP_GREATER", "OP_LESS", "OP_SUBTRACT", "OP_MULTIPLY", "OP_DIVIDE"}

Apply(op, a, b) ==
  CASE op = "OP_GREATER" -> Bool(a > b)
    [] op = "OP_LESS" -> Bool(a < b)
    [] op = "OP_SUBTRACT" -> Num(a - b)
    [] op = "OP_MULTIPLY" -> Num(a * b)
    [] op = "OP_DIVIDE" -> Num(CHOOSE q \in (0 - a * a)..(a * a) : q * b = a)

\* pop(): the value and the stack left, or the throw on an empty stack
pop(s) ==
  IF s = <<>> THEN [thrown |-> TRUE, value |-> UNDEFINED, stack |-> s]
  ELSE [thrown |-> FALSE, value |-> s[Len(s)], stack |-> Truncate(s, Len(s) - 1)]

\* binaryOp(op, 'number'): false after runtimeError, else the result pushed
binaryOp_unchecked(s, op) ==
  [ok |-> TRUE,
   stack |-> Append(Truncate(s, Len(s) - 2), Apply(op, peek(s, 1).v, peek(s, 0).v))]

binaryOp(s, op) ==
  IF peek(s, 0).t # "number" \/ peek(s, 1).t # "number"
  THEN [ok |-> FALSE, stack |-> s]
  ELSE [ok |-> TRUE,
        stack |-> Append(Truncate(s, Len(s) - 2), Apply(op, peek(s, 1).v, peek(s, 0).v))]

\* binaryAdd()
binaryAdd(s) ==
  LET b == peek(s, 0)
      a == peek(s, 1)
  IN IF a.t = "string" /\ b.t = "string"
     THEN [ok |-> TRUE, stack |-> Append(Truncate(s, Len(s) - 2), Str(a.v + b.v))]
     ELSE IF a.t = "number" /\ b.t = "number"
     THEN [ok |-> TRUE, stack |-> Append(Truncate(s, Len(s) - 2), Num(a.v + b.v))]
     ELSE [ok |-> FALSE, stack |-> s]

\* isTruthy(value)
isTruthy(value) ==
  IF value.t = "nil" THEN FALSE
  ELSE IF value.t = "boolean" THEN value.v = 1
  ELSE TRUE

\* readByte() of the next instruction; what the instruction found on the stack
Dispatch(op) ==
  /\ Running
  /\ comp.ip < RunSteps
  /\ comp' = [comp EXCEPT !.ip = @ + 1]
  /\ last' = [op |-> op, ip |-> comp.ip, held |-> Len(stack),
              a |-> peek(stack, 1), b |-> peek(stack, 0)]
  /\ UNCHANGED <<tableVars, frames, globals, openUpvalues, heap, gc>>

\* OP_CONSTANT, OP_NIL, OP_TRUE, OP_FALSE
RunPush(v) ==
  /\ Dispatch("push")
  /\ stack' = Append(stack, v)
  /\ result' = result

\* the instructions that pop one value: OP_POP, OP_PRINT, OP_NOT
RunPopOne(op) ==
  /\ Dispatch(op)
  /\ LET r == pop(stack)
     IN IF r.thrown THEN result' = "Error" /\ stack' = stack
        ELSE /\ result' = result
             /\ stack' = IF op = "OP_NOT" THEN Append(r.stack, Bool(~isTruthy(r.value)))
                          ELSE r.stack

\* OP_EQUAL
RunEqual ==
  /\ Dispatch("OP_EQUAL")
  /\ LET b == pop(stack)
         a == pop(b.stack)
     IN IF b.thrown \/ a.thrown THEN result' = "Error" /\ stack' = a.stack
        ELSE /\ result' = result
             /\ stack' = Append(a.stack, Bool(a.value = b.value))

\* OP_NEGATE
RunNegate ==
  /\ Dispatch("OP_NEGATE")
  /\ IF peek(stack, 0).t # "number"
     THEN result' = "RUNTIME_ERROR" /\ stack' = stack
     ELSE /\ result' = result
          /\ stack' = Append(Truncate(stack, Len(stack) - 1), Num(0 - peek(stack, 0).v))

\* b is not zero and a / b is a whole number
Divides(b, a) ==
  LET m == IF a < 0 THEN 0 - a ELSE a
  IN b # 0 /\ \E q \in (0 - m)..m : q * b = a

\* OP_GREATER, OP_LESS, OP_SUBTRACT, OP_MULTIPLY, OP_DIVIDE; a division is
\* explored when its quotient is a whole number
RunBinary(op) ==
  /\ Dispatch(op)
  /\ (op = "OP_DIVIDE" /\ peek(stack, 0).t = "number" /\ peek(stack, 1).t = "number")
        => Divides(peek(stack, 0).v, peek(stack, 1).v)
  /\ LET r == binaryOp(stack, op)
     IN /\ stack' = r.stack
        /\ result' = IF r.ok THEN result ELSE "RUNTIME_ERROR"

\* OP_ADD
RunAdd ==
  /\ Dispatch("OP_ADD")
  /\ LET r == binaryAdd(stack)
     IN /\ stack' = r.stack
        /\ result' = IF r.ok THEN result ELSE "RUNTIME_ERROR"

\* OP_RETURN
RunReturn ==
  /\ Dispatch("OP_RETURN")
  /\ result' = "OK"
  /\ stack' = stack

\* interpret(chunk): ip = 0, stack = []
RunInit ==
  /\ tbl = NewTable
  /\ shadow = [k \in Keys |-> UNDEFINED]
  /\ stack = <<>>
  /\ frames = <<>>
  /\ globals = NewTable
  /\ openUpvalues = <<>>
  /\ heap = <<>>
  /\ result = "running"
  /\ last = [op |-> "none", ip |-> 0, held |-> 0, a |-> UNDEFINED, b |-> UNDEFINED]
  /\ gc = NewGc
  /\ comp = [op |-> "run", ip |-> 0]

RunNext ==
  \/ \E v \in RunValues : RunPush(v)
  \/ \E op \in {"OP_POP", "OP_PRINT", "OP_NOT"} : RunPopOne(op)
  \/ RunEqual
  \/ RunNegate
  \/ \E op \in BinaryOps : RunBinary(op)
  \/ RunAdd
  \/ RunReturn

SpecRun == RunInit /\ [][RunNext]_vars

---------------------------------------------------------------------------
(* Scanning words: texts made of pieces that join into reserved words,     *)
(* into other identifiers, and into names every JavaScript object has.     *)

WordLen == 3
WordPieces ==
  {<<"f">>, <<"o", "r">>, <<"u", "n">>, <<" ">>, <<"1">>,
   <<"t", "o", "S", "t", "r", "i", "n", "g">>}

WordInit ==
  /\ tbl = NewTable
  /\ shadow = [k \in Keys |-> UNDEFINED]
  /\ stack = <<>>
  /\ frames = <<>>
  /\ globals = NewTable
  /\ openUpvalues = <<>>
  /\ heap = <<>>
  /\ result = "idle"
  /\ last = [op |-> "none"]
  /\ gc = NewGc
  /\ \E source \in Texts(WordPieces, WordLen) :
        comp = [op |-> "words", sc |-> NewScanner(source), tokens |-> <<>>]

WordNext == ScanToken

SpecWords == WordInit /\ [][WordNext]_vars

---------------------------------------------------------------------------
(* Compiling: one Compiler instance on which compile is called with texts  *)
(* of at most CompileLen pieces, CompileCalls times.                       *)

CompileLen == 3
CompileCalls == 2
CompilePieces == {<<"1">>, <<"+">>, <<"(">>, <<")">>, <<"@">>}

CompileInit ==
  /\ tbl = NewTable
  /\ shadow = [k \in Keys |-> UNDEFINED]
  /\ stack = <<>>
  /\ frames = <<>>
  /\ globals = NewTable
  /\ openUpvalues = <<>>
  /\ heap = <<>>
  /\ result = "idle"
  /\ last = [op |-> "none"]
  /\ gc = NewGc
  /\ comp = [op |-> "compile", c |-> NewCompiler, calls |-> 0, source |-> <<>>,
             outcome |-> "none", before |-> "none"]

\* compiler.compile(source) on the instance
Compile(source) ==
  /\ comp.calls < CompileCalls
  /\ LET r == compile(comp.c, source)
     IN comp' = [comp EXCEPT !.c = r.c, !.calls = @ + 1, !.source = source,
                             !.outcome = r.outcome, !.before = comp.outcome]
  /\ UNCHANGED <<tableVars, vmVars, gcVars>>

CompileNext == \E source \in Texts(CompilePieces, CompileLen) : Compile(source)

SpecCompile == CompileInit /\ [][CompileNext]_vars

----------------------------------------------------------------------------
(* Compile and run: the chunk compile() returns for an expression is run   *)
(* by VM.run() from ip = 0 on an empty stack.                              *)

ChunkLen == 5
ChunkPieces ==
  {<<"1">>, <<"-">>, <<"+">>, <<"!">>, <<"=", "=">>, <<"(">>, <<")">>, <<"n", "i", "l">>}

\* the number an operand byte holds, -1 for a cell that is no operand
ByteOf(cell) ==
  IF \E i \in 0..255 : ToString(i) = cell
  THEN CHOOSE i \in 0..255 : ToString(i) = cell
  ELSE -1

\* chunk.code[ip], undefined outside the chunk
CodeAt(ip) == IF ip < Len(comp.code) THEN comp.code[ip + 1] ELSE "undefined"

\* chunk.constants[index], undefined outside the constants
ConstantAt(index) ==
  IF index \in 0..(Len(comp.constants) - 1) THEN comp.constants[index + 1] ELSE UNDEFINED

\* interpret(chunk) of the chunk compile(source) returned
ChunkInit ==
  /\ tbl = NewTable
  /\ shadow = [k \in Keys |-> UNDEFINED]
  /\ stack = <<>>
  /\ frames = <<>>
  /\ globals = NewTable
  /\ openUpvalues = <<>>
  /\ heap = <<>>
  /\ result = "running"
  /\ last = [op |-> "none", ip |-> 0, held |-> 0]
  /\ gc = NewGc
  /\ \E source \in Texts(ChunkPieces, ChunkLen) :
        /\ compile(NewCompiler, source).outcome = "chunk"
        /\ comp = [op |-> "chunk", source |-> source, ip |-> 0,
                   code |-> compile(NewCompiler, source).c.code,
                   constants |-> compile(NewCompiler, source).c.constants]

\* readByte() returned the instruction op; width is the instruction and its
\* operand
Read(op, width) ==
  /\ comp.op = "chunk"
  /\ Running
  /\ CodeAt(comp.ip) = op
  /\ comp' = [comp EXCEPT !.ip = @ + width]
  /\ last' = [op |-> op, ip |-> comp.ip, held |-> Len(stack)]
  /\ UNCHANGED <<tableVars, frames, globals, openUpvalues, heap, gc>>

\* OP_CONSTANT
ChunkConstant ==
  /\ Read("OP_CONSTANT", 2)
  /\ stack' = Append(stack, ConstantAt(ByteOf(CodeAt(comp.ip + 1))))
  /\ result' = result

\* OP_NIL, OP_TRUE, OP_FALSE
ChunkLiteral(op) ==
  /\ Read(op, 1)
  /\ stack' = Append(stack, CASE op = "OP_NIL" -> NIL
                              [] op = "OP_TRUE" -> Bool(TRUE)
                              [] op = "OP_FALSE" -> Bool(FALSE))
  /\ result' = result

\* OP_NOT
ChunkNot ==
  /\ Read("OP_NOT", 1)
  /\ LET r == pop(stack)
     IN IF r.thrown THEN result' = "Error" /\ stack' = stack
        ELSE /\ result' = result
             /\ stack' = Append(r.stack, Bool(~isTruthy(r.value)))

\* OP_EQUAL
ChunkEqual ==
  /\ Read("OP_EQUAL", 1)
  /\ LET b == pop(stack)
         a == pop(b.stack)
     IN IF b.thrown \/ a.thrown THEN result' = "Error" /\ stack' = a.stack
        ELSE /\ result' = result
             /\ stack' = Append(a.stack, Bool(a.value = b.value))

\* OP_NEGATE
ChunkNegate ==
  /\ Read("OP_NEGATE", 1)
  /\ IF peek(stack, 0).t # "number"
     THEN result' = "RUNTIME_ERROR" /\ stack' = stack
     ELSE /\ result' = result
          /\ stack' = Append(Truncate(stack, Len(stack) - 1), Num(0 - peek(stack, 0).v))

\* OP_SUBTRACT and the other instructions of binaryOp
ChunkBinary(op) ==
  /\ Read(op, 1)
  /\ LET r == binaryOp(stack, op)
     IN /\ stack' = r.stack
        /\ result' = IF r.ok THEN result ELSE "RUNTIME_ERROR"

\* OP_ADD
ChunkAdd ==
  /\ Read("OP_ADD", 1)
  /\ LET r == binaryAdd(stack)
     IN /\ stack' = r.stack
        /\ result' = IF r.ok THEN result ELSE "RUNTIME_ERROR"

\* OP_RETURN
ChunkReturn ==
  /\ Read("OP_RETURN", 1)
  /\ result' = "OK"
  /\ stack' = stack

ChunkNext ==
  \/ ChunkConstant
  \/ \E op \in {"OP_NIL", "OP_TRUE", "OP_FALSE"} : ChunkLiteral(op)
  \/ ChunkNot
  \/ ChunkEqual
  \/ ChunkNegate
  \/ \E op \in BinaryOps : ChunkBinary(op)
  \/ ChunkAdd
  \/ ChunkReturn

SpecChunk == ChunkInit /\ [][ChunkNext]_vars

---------------------------------------------------------------------------
(* Compiling programs: one call of compile on a text of at most            *)
(* ProgramLen pieces.                                                      *)

ProgramLen == 5
ProgramPieces ==
  {<<"1">>, <<")">>, <<"@">>, <<";">>, <<"p", "r", "i", "n", "t", " ">>,
   <<"v", "a", "r", " ", "a">>}

ProgramInit ==
  /\ tbl = NewTable
  /\ shadow = [k \in Keys |-> UNDEFINED]
  /\ stack = <<>>
  /\ frames = <<>>
  /\ globals = NewTable
  /\ openUpvalues = <<>>
  /\ heap = <<>>
  /\ result = "idle"
  /\ last = [op |-> "none"]
  /\ gc = NewGc
  /\ comp = [op |-> "program", c |-> NewCompiler, calls |-> 0, source |-> <<>>,
             outcome |-> "none"]

\* compiler.compile(source) of a program text
CompileProgram(source) ==
  /\ comp.calls = 0
  /\ LET r == compileProgram(comp.c, source)
     IN comp' = [comp EXCEPT !.c = r.c, !.calls = 1, !.source = source,
                             !.outcome = r.outcome]
  /\ UNCHANGED <<tableVars, vmVars, gcVars>>

ProgramNext == \E source \in Texts(ProgramPieces, ProgramLen) : CompileProgram(source)

SpecProgram == ProgramInit /\ [][ProgramNext]_vars

---------------------------------------------------------------------------
(* Resolving: the compiler's steps over a text of at most ResolveLen       *)
(* pieces, taken in any order the grammar allows: scopes and functions     *)
(* open and close, variables are declared, and the identifiers of the      *)
(* text are read.                                                          *)

ResolveLen == 2
ResolveDepth == 3
ResolveLocals == 2
ResolveScopes == 2
ResolvePieces ==
  {<<"c", "l", "a", "s", "s">>, <<" ", "c", "l", "a", "s">>, <<" ", "s">>, <<" ">> \o ThisText}

\* the tokens the scanner makes of a text
RECURSIVE ScanAll(_)
ScanAll(sc) ==
  LET r == scanToken(sc)
  IN IF r.token.type = "EOF" THEN <<r.token>> ELSE <<r.token>> \o ScanAll(r.sc)

\* the identifiers of a text, each at its first place
IdentifierTokens(source) ==
  LET tokens == ScanAll(NewScanner(source))
  IN {tokens[i] : i \in {j \in 1..Len(tokens) :
         /\ tokens[j].type = "IDENTIFIER"
         /\ \A k \in 1..(j - 1) :
               getLexeme(source, tokens[k]) # getLexeme(source, tokens[j])}}

ResolveInit ==
  /\ tbl = NewTable
  /\ shadow = [k \in Keys |-> UNDEFINED]
  /\ stack = <<>>
  /\ frames = <<>>
  /\ globals = NewTable
  /\ openUpvalues = <<>>
  /\ heap = <<>>
  /\ result = "idle"
  /\ last = [op |-> "none"]
  /\ gc = NewGc
  /\ \E source \in Texts(ResolvePieces, ResolveLen) :
        comp = [op |-> "resolve", source |-> source,
                compilers |-> <<NewFunctionCompiler(source, "SCRIPT")>>,
                hadError |-> FALSE, last |-> [getOp |-> "none"]]

currentCompiler == comp.compilers[Len(comp.compilers)]

\* a local is declared and its initializer not yet compiled
Declaring ==
  /\ Len(currentCompiler.locals) > 0
  /\ currentCompiler.locals[Len(currentCompiler.locals)].depth = -1

\* the locals of the current compiler that the program declared
OwnLocals == {i \in 1..Len(currentCompiler.locals) : currentCompiler.locals[i].depth # 0}

\* '{' of a block
BeginScope ==
  /\ ~Declaring
  /\ currentCompiler.scopeDepth < (IF Len(comp.compilers) = 2 THEN ResolveScopes ELSE ResolveScopes - 1)
  /\ comp' = [comp EXCEPT !.compilers[Len(comp.compilers)] = beginScope(@),
                          !.last = [getOp |-> "none"]]
  /\ UNCHANGED <<tableVars, vmVars, gcVars>>

\* '}' of a block
EndScope ==
  /\ ~Declaring
  /\ currentCompiler.scopeDepth > (IF currentCompiler.type = "SCRIPT" THEN 0 ELSE 1)
  /\ comp' = [comp EXCEPT !.compilers[Len(comp.compilers)] = endScope(@),
                          !.last = [getOp |-> "none", scope |-> "end",
                                    before |-> currentCompiler,
                                    emitted |-> endScopeCode(currentCompiler)]]
  /\ UNCHANGED <<tableVars, vmVars, gcVars>>

\* 'var name' inside a block or a function: parseVariable declares the local
DeclareVariable(name) ==
  /\ ~Declaring
  /\ currentCompiler.scopeDepth > 0
  /\ Cardinality(OwnLocals) < (IF Len(comp.compilers) = 2 THEN ResolveLocals ELSE ResolveLocals - 1)
  /\ LET declared == declareVariable(comp.source, currentCompiler, name)
     IN comp' = [comp EXCEPT !.compilers[Len(comp.compilers)] = declared.fc,
                             !.hadError = @ \/ declared.error,
                             !.last = [getOp |-> "none"]]
  /\ UNCHANGED <<tableVars, vmVars, gcVars>>

\* the end of the declaration: defineVariable marks the local initialized
DefineVariable ==
  /\ Declaring
  /\ comp' = [comp EXCEPT !.compilers[Len(comp.compilers)] = markInitialized(@),
                          !.last = [getOp |-> "none"]]
  /\ UNCHANGED <<tableVars, vmVars, gcVars>>

\* the body of a function or of a method begins
BeginFunction(type) ==
  /\ ~Declaring
  /\ Len(comp.compilers) < ResolveDepth
  /\ comp' = [comp EXCEPT !.compilers = Append(@, NewFunctionCompiler(comp.source, type)),
                          !.last = [getOp |-> "none"]]
  /\ UNCHANGED <<tableVars, vmVars, gcVars>>

\* the body ends
EndFunction ==
  /\ ~Declaring
  /\ Len(comp.compilers) > 1
  /\ comp' = [comp EXCEPT !.compilers = SubSeq(@, 1, Len(@) - 1),
                          !.last = [getOp |-> "none"]]
  /\ UNCHANGED <<tableVars, vmVars, gcVars>>

\* an identifier of the text is read: variable(canAssign) without '='
Reference(name) ==
  /\ LET r == resolveVariable(comp.source, comp.compilers, name)
     IN comp' = [comp EXCEPT !.compilers = r.cs,
                             !.hadError = @ \/ r.error,
                             !.last = [getOp |-> r.getOp, arg |-> r.arg, global |-> r.global,
                                       name |-> getLexeme(comp.source, name)]]
  /\ UNCHANGED <<tableVars, vmVars, gcVars>>

ResolveNext ==
  \/ BeginScope
  \/ EndScope
  \/ \E name \in IdentifierTokens(comp.source) : DeclareVariable(name)
  \/ DefineVariable
  \/ \E type \in {"FUNCTION", "METHOD"} : BeginFunction(type)
  \/ EndFunction
  \/ \E name \in IdentifierTokens(comp.source) : Reference(name)

SpecResolve == ResolveInit /\ [][ResolveNext]_vars

\* The blocks and the locals of a function of the script, read by the
\* function and by a function inside it, over a text of two names
ScopeText == <<" ", "s">> \o <<" ", "c", "l", "a", "s">>

ScopeInit ==
  /\ ResolveInit
  /\ comp.source = ScopeText

ScopeNext ==
  \/ BeginScope /\ Len(comp.compilers) = 2
  \/ EndScope
  \/ \E name \in IdentifierTokens(comp.source) : DeclareVariable(name) /\ Len(comp.compilers) = 2
  \/ DefineVariable
  \/ BeginFunction("FUNCTION") /\ Len(comp.compilers) <= 2
  \/ EndFunction
  \/ \E name \in IdentifierTokens(comp.source) : Reference(name) /\ Len(comp.compilers) >= 2

SpecScope == ScopeInit /\ [][ScopeNext]_vars

----------------------------------------------------------------------------
(* Control flow: if, while and for statements compiled with emitJump,      *)
(* patchJump and emitLoop, and run by the VM. A statement is given by its  *)
(* parts: the conditions are the literals true, false and nil, the other   *)
(* expressions are nil, and a body is a run of expression statements or a  *)
(* statement of the three kinds.                                           *)

FlowBody == 130
UINT16_MAX == 65535

\* a cell of chunk.code: an instruction or an operand byte
Ins(op) == [op |-> op, n |-> 0]
Byte(n) == [op |-> "byte", n |-> n]

\* the compiler at the start of the script: empty chunk, no local; nodes and
\* targets note what was compiled where
NewFlow == [code |-> <<>>, locals |-> 0, hadError |-> FALSE, nodes |-> <<>>, targets |-> {}]

emitOp(f, op) == [f EXCEPT !.code = Append(@, Ins(op))]
emitOperand(f, n) == [f EXCEPT !.code = Append(@, Byte(n))]

\* emitJump(instruction): the compiler and the offset of the placeholder
emitJump(f, instruction) ==
  [f |-> emitOperand(emitOperand(emitOp(f, instruction), 255), 255),
   offset |-> Len(f.code) + 1]

\* a variant of patchJump(offset) that counts the operand into the distance
Patched_operand(f, offset, jump) ==
  [f EXCEPT !.hadError = @ \/ jump > UINT16_MAX,
            !.code[offset + 1] = Byte(((jump + 2) \div 256) % 256),
            !.code[offset + 2] = Byte((jump + 2) % 256),
            !.targets = @ \cup {<<offset - 1, Len(f.code)>>}]

\* patchJump(offset) from the jump computed on; the target noted is the
\* offset of the next instruction to be emitted
Patched(f, offset, jump) ==
  [f EXCEPT !.hadError = @ \/ jump > UINT16_MAX,
            !.code[offset + 1] = Byte((jump \div 256) % 256),
            !.code[offset + 2] = Byte(jump % 256),
            !.targets = @ \cup {<<offset - 1, Len(f.code)>>}]

\* patchJump(offset)
patchJump(f, offset) == Patched(f, offset, Len(f.code) - offset - 2)

\* emitLoop(loopStart), g being the compiler after OP_LOOP is emitted and
\* offset being code.length - loopStart + 2
LoopOperand(g, loopStart, offset) ==
  [emitOperand(emitOperand(g, (offset \div 256) % 256), offset % 256)
     EXCEPT !.hadError = @ \/ offset > UINT16_MAX,
            !.targets = @ \cup {<<Len(g.code) - 1, loopStart>>}]

emitLoop(f, loopStart) ==
  LoopOperand(emitOp(f, "OP_LOOP"), loopStart, Len(f.code) + 1 - loopStart + 2)

\* n expression statements "nil;"
exprStatements(f, n) ==
  [f EXCEPT !.code = @ \o [i \in 1..(2 * n) |-> IF i % 2 = 1 THEN Ins("OP_NIL") ELSE Ins("OP_POP")]]

\* statement() notes where the statement starts and ends and how many
\* locals are in scope around it
Noted(start, height, g) ==
  [g EXCEPT !.nodes = Append(@, [start |-> start, end |-> Len(g.code), height |-> height])]

RECURSIVE flowStatement(_, _)

\* ifStatement() from the jump over the else branch on
IfEnd(f, elseJump) == patchJump(f, elseJump)

IfFalsy(p, elseJump, s) ==
  IfEnd(IF s.else.k = "none" THEN p ELSE flowStatement(p, s.else), elseJump)

IfElse(e, thenJump, s) ==
  IfFalsy(emitOp(patchJump(e.f, thenJump), "OP_POP"), e.offset, s)

IfThen(j, s) ==
  IfElse(emitJump(flowStatement(emitOp(j.f, "OP_POP"), s.then), "OP_JUMP"), j.offset, s)

ifStatement(f, s) == IfThen(emitJump(emitOp(f, s.cond), "OP_JUMP_IF_FALSE"), s)

\* whileStatement()
WhileExit(f, exitJump) == emitOp(patchJump(f, exitJump), "OP_POP")

WhileBody(loopStart, j, s) ==
  WhileExit(emitLoop(flowStatement(emitOp(j.f, "OP_POP"), s.body), loopStart), j.offset)

whileStatement(f, s) ==
  WhileBody(Len(f.code), emitJump(emitOp(f, s.cond), "OP_JUMP_IF_FALSE"), s)

\* forStatement(): the initializer "var i = nil;" leaves its value in the
\* slot of a local that endScope() pops
ForEndScope(f, s) ==
  IF s.init = "var" THEN [emitOp(f, "OP_POP") EXCEPT !.locals = @ - 1] ELSE f

ForExit(f, exitJump, s) ==
  ForEndScope(IF exitJump # -1
              THEN emitOp(patchJump(f, exitJump), "OP_POP")
              ELSE f, s)

ForBody(f, loopStart, exitJump, s) ==
  ForExit(emitLoop(flowStatement(f, s.body), loopStart), exitJump, s)

ForPatched(f, bodyJump, incrementStart, exitJump, s) ==
  ForBody(patchJump(f, bodyJump), incrementStart, exitJump, s)

ForIncrement(loopStart, b, exitJump, s) ==
  ForPatched(emitLoop(emitOp(emitOp(b.f, "OP_NIL"), "OP_POP"), loopStart),
             b.offset, Len(b.f.code), exitJump, s)

ForCondition(loopStart, c, s) ==
  IF s.incr THEN ForIncrement(loopStart, emitJump(c.f, "OP_JUMP"), c.offset, s)
  ELSE ForBody(c.f, loopStart, c.offset, s)

ForPopped(j) == [f |-> emitOp(j.f, "OP_POP"), offset |-> j.offset]

ForInitialized(f, s) ==
  ForCondition(Len(f.code),
               IF s.cond = "none" THEN [f |-> f, offset |-> -1]
               ELSE ForPopped(emitJump(emitOp(f, s.cond), "OP_JUMP_IF_FALSE")), s)

forStatement(f, s) ==
  ForInitialized(CASE s.init = "none" -> f
                   [] s.init = "var" -> [emitOp(f, "OP_NIL") EXCEPT !.locals = @ + 1]
                   [] s.init = "expr" -> exprStatements(f, 1), s)

flowStatement(f, s) ==
  Noted(Len(f.code), f.locals,
        CASE s.k = "exprs" -> exprStatements(f, s.n)
          [] s.k = "if" -> ifStatement(f, s)
          [] s.k = "while" -> whileStatement(f, s)
          [] s.k = "for" -> forStatement(f, s))

\* the chunk of a script of one statement
compileFlow(s) == emitOp(flowStatement(NewFlow, s), "OP_RETURN")

\* the statements explored
Conds == {"OP_TRUE", "OP_FALSE", "OP_NIL"}
NoElse == [k |-> "none"]
Exprs(n) == [k |-> "exprs", n |-> n]

ControlOver(thens, elses, bodies) ==
  [k : {"if"}, cond : Conds, then : thens, else : elses]
    \cup [k : {"while"}, cond : Conds, body : bodies]
    \cup [k : {"for"}, init : {"none", "var", "expr"}, cond : Conds \cup {"none"},
          incr : BOOLEAN, body : bodies]

Plain == ControlOver({Exprs(1), Exprs(FlowBody)}, {NoElse, Exprs(1), Exprs(FlowBody)},
                     {Exprs(1), Exprs(FlowBody)})

Short == ControlOver({Exprs(1)}, {NoElse, Exprs(1)}, {Exprs(1)})

Programs == Plain \cup ControlOver(Short, {Exprs(1)}, Short)

\* readShort() at ip
readShort(code, ip) == code[ip + 1].n * 256 + code[ip + 2].n

FlowInit ==
  /\ tbl = NewTable
  /\ shadow = [k \in Keys |-> UNDEFINED]
  /\ stack = <<>>
  /\ frames = <<>>
  /\ globals = NewTable
  /\ openUpvalues = <<>>
  /\ heap = <<>>
  /\ result = "running"
  /\ last = [op |-> "none", ip |-> 0, before |-> <<>>, short |-> 0]
  /\ gc = NewGc
  /\ \E s \in Programs :
        /\ ~compileFlow(s).hadError
        /\ comp = [op |-> "flow", ip |-> 0, code |-> compileFlow(s).code,
                   nodes |-> compileFlow(s).nodes, targets |-> compileFlow(s).targets]

\* readByte() of the instruction at ip
Fetch(op) ==
  /\ comp.op = "flow"
  /\ Running
  /\ comp.ip < Len(comp.code)
  /\ comp.code[comp.ip + 1].op = op
  /\ UNCHANGED <<tableVars, frames, globals, openUpvalues, heap, gc>>

\* OP_NIL, OP_TRUE, OP_FALSE
FlowLiteral(op) ==
  /\ Fetch(op)
  /\ stack' = Append(stack, CASE op = "OP_NIL" -> NIL
                              [] op = "OP_TRUE" -> Bool(TRUE)
                              [] op = "OP_FALSE" -> Bool(FALSE))
  /\ comp' = [comp EXCEPT !.ip = @ + 1]
  /\ last' = [op |-> op, ip |-> comp.ip, before |-> stack, short |-> 0]
  /\ result' = result

\* OP_POP
FlowPop ==
  /\ Fetch("OP_POP")
  /\ stack' = pop(stack).stack
  /\ result' = IF pop(stack).thrown THEN "Error" ELSE result
  /\ comp' = [comp EXCEPT !.ip = @ + 1]
  /\ last' = [op |-> "OP_POP", ip |-> comp.ip, before |-> stack, short |-> 0]

\* OP_JUMP
FlowJump ==
  /\ Fetch("OP_JUMP")
  /\ comp' = [comp EXCEPT !.ip = @ + 3 + readShort(comp.code, comp.ip + 1)]
  /\ last' = [op |-> "OP_JUMP", ip |-> comp.ip, before |-> stack,
              short |-> readShort(comp.code, comp.ip + 1)]
  /\ UNCHANGED <<stack, result>>

\* a variant of OP_JUMP_IF_FALSE that pops the condition
FlowJumpIfFalse_pop ==
  /\ Fetch("OP_JUMP_IF_FALSE")
  /\ comp' = [comp EXCEPT !.ip = IF isTruthy(peek(stack, 0)) THEN @ + 3
                                 ELSE @ + 3 + readShort(comp.code, comp.ip + 1)]
  /\ last' = [op |-> IF isTruthy(peek(stack, 0)) THEN "OP_JUMP_IF_FALSE" ELSE "jump if false",
              ip |-> comp.ip, before |-> stack,
              short |-> readShort(comp.code, comp.ip + 1)]
  /\ stack' = pop(stack).stack
  /\ result' = result

\* OP_JUMP_IF_FALSE
FlowJumpIfFalse ==
  /\ Fetch("OP_JUMP_IF_FALSE")
  /\ comp' = [comp EXCEPT !.ip = IF isTruthy(peek(stack, 0)) THEN @ + 3
                                 ELSE @ + 3 + readShort(comp.code, comp.ip + 1)]
  /\ last' = [op |-> IF isTruthy(peek(stack, 0)) THEN "OP_JUMP_IF_FALSE" ELSE "jump if false",
              ip |-> comp.ip, before |-> stack,
              short |-> readShort(comp.code, comp.ip + 1)]
  /\ UNCHANGED <<stack, result>>

\* OP_LOOP
FlowLoop ==
  /\ Fetch("OP_LOOP")
  /\ comp' = [comp EXCEPT !.ip = @ + 3 - readShort(comp.code, comp.ip + 1)]
  /\ last' = [op |-> "OP_LOOP", ip |-> comp.ip, before |-> stack,
              short |-> readShort(comp.code, comp.ip + 1)]
  /\ UNCHANGED <<stack, result>>

\* OP_RETURN
FlowReturn ==
  /\ Fetch("OP_RETURN")
  /\ result' = "OK"
  /\ last' = [op |-> "OP_RETURN", ip |-> comp.ip, before |-> stack, short |-> 0]
  /\ UNCHANGED <<stack, comp>>

FlowNext ==
  \/ \E op \in {"OP_NIL", "OP_TRUE", "OP_FALSE"} : FlowLiteral(op)
  \/ FlowPop
  \/ FlowJump
  \/ FlowJumpIfFalse
  \/ FlowLoop
  \/ FlowReturn

SpecFlow == FlowInit /\ [][FlowNext]_vars

---------------------------------------------------------------------------
(* Super calls: the script declares class A with a method m of no or one   *)
(* parameter and class B < A whose method m captures the hidden local      *)
(* super; it creates a B and invokes m on it.  B's m may declare a local   *)
(* named by an identifier of the program's text, initialised to class A,   *)
(* and then runs the code of super_(): the load of 'this' that             *)
(* namedVariable resolves, the arguments, the load of 'super', and         *)
(* OP_SUPER_INVOKE or OP_GET_SUPER.  comp holds the text, the locals the   *)
(* compiler had for B's m, and the stack index of the loaded 'this'.       *)

SuperTemps == 3
SuperObjs == 12
SuperFrames == 3
SuperLen == 2
SuperPieces == {<<"c", "l", "a", "s", "s">>, <<" ", "c", "l", "a", "s">>, <<" ">> \o ThisText}

\* the prototype of B's m: no parameter, upvalue 0 is the script's local 1, super
SubMethod ==
  CHOOSE fn \in 1..Len(Functions) :
    Functions[fn].arity = 0 /\ Functions[fn].upvalues = <<[isLocal |-> TRUE, index |-> 1]>>

SuperInit ==
  /\ tbl = NewTable
  /\ shadow = [k \in Keys |-> UNDEFINED]
  /\ stack = <<Obj(2)>>
  /\ frames = VmStartFrames
  /\ globals = VmStartGlobals
  /\ openUpvalues = <<>>
  /\ heap = VmStartHeap
  /\ result = "running"
  /\ last = [op |-> "none"]
  /\ gc = VmStartGc
  /\ \E source \in Texts(SuperPieces, SuperLen) :
        comp = [op |-> "super", source |-> source,
                fc |-> NewFunctionCompiler(source, "METHOD"), pending |-> -1]

SuperBounds ==
  /\ FrameWithin(2, SuperTemps)'
  /\ Len(heap') <= SuperObjs
  /\ Len(frames') <= SuperFrames
  /\ UNCHANGED tableVars

SuperStep == SuperBounds /\ UNCHANGED frontVars

Defined(name) == TableGet(globals, name) # UNDEFINED

\* the class held by a global has a method m of its own
HasOwnMethod(name, fns) ==
  /\ Defined(name)
  /\ LET method == TableGet(Methods(heap, TableGet(globals, name).v), "m")
     IN method # UNDEFINED /\ heap[method.v].fn \in fns

IsClassNamed(v, name) == IsObj(v, "class") /\ heap[v.v].name = name

\* where the load of 'this' in super_() reads: namedVariable(syntheticToken('this'))
ThisOperand ==
  resolveVariable(comp.source, <<NewFunctionCompiler(comp.source, "SCRIPT"), comp.fc>>,
                  syntheticToken(comp.source, ThisText))

SuperNext ==
  \/ OpClass("A") /\ InFn(1) /\ ~Defined("a") /\ Temps = 0 /\ SuperStep
  \/ /\ OpClass("B")
     /\ InFn(1) /\ HasOwnMethod("a", {2, 3}) /\ ~Defined("q") /\ Temps = 0
     /\ SuperStep
  \/ /\ \E n \in {"a", "q"} :
          OpDefineGlobal(n) /\ IsClassNamed(peek(stack, 0), IF n = "a" THEN "A" ELSE "B")
     /\ Temps = 1
     /\ SuperStep
  \/ /\ OpGetGlobal("a")
     /\ Defined("a") /\ Temps = 0 /\ NumLocals = 1
     /\ IF InFn(1)
        THEN IF Defined("q") THEN ~HasOwnMethod("q", {SubMethod})
                             ELSE ~HasOwnMethod("a", {2, 3})
        ELSE InFn(SubMethod)
     /\ SuperStep
  \/ /\ OpGetGlobal("q")
     /\ Defined("q") /\ Temps = 0 /\ InFn(1)
     /\ (NumLocals = 1) = HasOwnMethod("q", {SubMethod})
     /\ SuperStep
  \/ /\ \E fn \in {2, 3} : OpClosure(fn)
     /\ InFn(1) /\ IsClassNamed(peek(stack, 0), "A") /\ ~HasOwnMethod("a", {2, 3})
     /\ SuperStep
  \/ /\ OpClosure(SubMethod)
     /\ InFn(1) /\ IsClassNamed(peek(stack, 0), "B") /\ NumLocals = 2
     /\ heap[peek(stack, 0).v].super # 0
     /\ ~HasOwnMethod("q", {SubMethod})
     /\ SuperStep
  \/ OpMethod("m") /\ SuperStep
  \/ /\ OpPop
     /\ InFn(1) /\ Temps = 1
     /\ \/ IsClassNamed(peek(stack, 0), "A") /\ HasOwnMethod("a", {2, 3}) /\ ~Defined("q")
        \/ IsClassNamed(peek(stack, 0), "B") /\ HasOwnMethod("q", {SubMethod})
     /\ SuperStep
  \/ /\ DeclareLocal
     /\ InFn(1) /\ IsClassNamed(peek(stack, 0), "A") /\ Defined("q") /\ NumLocals = 1
     /\ SuperStep
  \/ OpInherit /\ InFn(1) /\ NumLocals = 2 /\ Temps = 1 /\ SuperStep
  \/ OpCloseUpvalue /\ InFn(1) /\ HasOwnMethod("q", {SubMethod}) /\ SuperStep
  \/ /\ OpCall(0)
     /\ \/ InFn(1) /\ IsClassNamed(peek(stack, 0), "B") /\ HasOwnMethod("q", {SubMethod})
        \/ InFn(SubMethod) /\ IsObj(peek(stack, 0), "bound")
     /\ SuperStep
  \/ /\ OpInvoke("m", 0)
     /\ InFn(1) /\ IsObj(peek(stack, 0), "instance") /\ HasOwnMethod("q", {SubMethod})
     /\ \A i \in 1..Len(heap) : heap[i].kind # "bound"
     /\ SuperStep
  \/ /\ \E name \in IdentifierTokens(comp.source) :
          comp' = [comp EXCEPT !.fc =
                      markInitialized(declareVariable(comp.source, comp.fc, name).fc)]
     /\ DeclareLocal
     /\ InFn(SubMethod) /\ NumLocals = 1 /\ IsClassNamed(peek(stack, 0), "A")
     /\ SuperBounds
  \/ /\ OpGetLocal(ThisOperand.arg)
     /\ ThisOperand.getOp = "OP_GET_LOCAL"
     /\ InFn(SubMethod) /\ Temps = 0 /\ NumLocals = Len(comp.fc.locals)
     /\ comp' = [comp EXCEPT !.pending = Len(stack)]
     /\ SuperBounds
  \/ /\ OpConstant(Num(1))
     /\ \/ InFn(SubMethod) /\ comp.pending >= 0 /\ Len(stack) = comp.pending + 1
        \/ (InFn(2) \/ InFn(3)) /\ Temps = 0
     /\ SuperStep
  \/ /\ OpGetUpvalue(0)
     /\ InFn(SubMethod) /\ comp.pending >= 0 /\ last.op \in {"OP_GET_LOCAL", "OP_CONSTANT"}
     /\ SuperStep
  \/ /\ \E argCount \in 0..1 :
          OpSuperInvoke("m", argCount) /\ Len(stack) = comp.pending + argCount + 2
     /\ InFn(SubMethod) /\ last.op = "OP_GET_UPVALUE"
     /\ comp' = [comp EXCEPT !.pending = -1]
     /\ SuperBounds
  \/ /\ OpGetSuper("m")
     /\ InFn(SubMethod) /\ last.op = "OP_GET_UPVALUE" /\ Len(stack) = comp.pending + 2
     /\ comp' = [comp EXCEPT !.pending = -1]
     /\ SuperBounds
  \/ OpReturn /\ Len(frames) > 1 /\ comp.pending < 0 /\ SuperStep

SpecSuper == SuperInit /\ [][SuperNext]_vars

---------------------------------------------------------------------------
(* C1: get(k) returns the value of the most recent set(k, v) not followed  *)
(* by delete(k), and undefined otherwise, for every key, after any         *)
(* sequence of set, get and delete; across growth and across tombstones.   *)
C1_GetReturnsLatestSet ==
  \A k \in Keys : TableGet(tbl, k) = shadow[k]

\* after growth to 16, get finds a key beyond a tombstone that the delete
\* of another key left on its home slot
C1_Witness ==
  /\ tbl.capacity = 16
  /\ \E k \in Keys :
        /\ TableGet(tbl, k) = Num(2)
        /\ findEntry(tbl, k) # HashIndex(k, 16)
        /\ tbl.entries[HashIndex(k, 16) + 1].isDeleted

(* C2: when OP_SET_GLOBAL has run on a name that had no binding, the run   *)
(* has ended with RUNTIME_ERROR, the name still has no binding, and every  *)
(* other global has the binding it had before the instruction.             *)
C2_SetUndefinedGlobalRollsBack ==
  (last.op = "OP_SET_GLOBAL" /\ ~last.defined) =>
     /\ result = "RUNTIME_ERROR"
     /\ TableGet(globals, last.name) = UNDEFINED
     /\ \A n \in GlobalNames \ {last.name} : TableGet(globals, n) = last.before[n]

\* the failed assignment went to a name that hashes to the slot of a live
\* global; the undone insert left a tombstone and the live global is intact
C2_Witness ==
  /\ last.op = "OP_SET_GLOBAL" /\ ~last.defined
  /\ result = "RUNTIME_ERROR"
  /\ last.name = "q"
  /\ HashIndex("q", globals.capacity) = HashIndex("a", globals.capacity)
  /\ TableGet(globals, "a") \in ConstValues
  /\ \E i \in 1..globals.capacity : globals.entries[i].isDeleted

(* C3: two closures that captured the same local variable read and write *)
(* one cell: whatever value is written through the upvalue of either is    *)
(* the value read through the upvalue of the other, while the variable is  *)
(* on the stack (the upvalue is open) and after its frame or block ended   *)
(* (the upvalue is closed).                                                *)
Captures ==
  {p \in (1..Len(heap)) \X (1..1) :
      heap[p[1]].kind = "closure" /\ p[2] <= Len(heap[p[1]].upvalues)}

CellOf(p) == heap[p[1]].upvalues[p[2]]

VarOf(p) == heap[p[1]].captured[p[2]]

\* the value read through q after value has been written through p
ReadAfterWrite(p, q, value) ==
  LET w == UpvalueWrite(heap, stack, CellOf(p), value)
  IN UpvalueRead(w.heap, w.stack, CellOf(q))

C3_SameVariableSharesCell ==
  \A p \in Captures, q \in Captures :
     VarOf(p) = VarOf(q) =>
        \A v \in ConstValues : ReadAfterWrite(p, q, v) = v

\* an accessor has just assigned the variable through its upvalue while the
\* factory's frame is active, and another accessor holds the same variable
C3_WitnessOpen ==
  /\ last.op = "OP_SET_UPVALUE"
  /\ \E p \in Captures, q \in Captures :
        /\ p[1] = currentFrame.closure /\ q[1] # p[1] /\ VarOf(p) = VarOf(q)
        /\ heap[CellOf(p)].location >= 0
        /\ UpvalueRead(heap, stack, CellOf(q)) = last.value

\* the same after the factory has returned and the upvalue is closed
C3_Witness ==
  /\ last.op = "OP_SET_UPVALUE"
  /\ \E p \in Captures, q \in Captures :
        /\ p[1] = currentFrame.closure /\ q[1] # p[1] /\ VarOf(p) = VarOf(q)
        /\ heap[CellOf(p)].location = -1
        /\ heap[CellOf(p)].closed = Num(2)
        /\ UpvalueRead(heap, stack, CellOf(q)) = Num(2)

(* C4: closures that captured the locals of different calls of the factory *)
(* share no cell: a value written through the upvalue of one leaves what   *)
(* is read through the upvalue of the other as it was.                     *)
C4_SeparateCallsShareNoCell ==
  \A p \in Captures, q \in Captures :
     VarOf(p) # VarOf(q) =>
        /\ CellOf(p) # CellOf(q)
        /\ \A v \in ConstValues :
              ReadAfterWrite(p, q, v) = UpvalueRead(heap, stack, CellOf(q))

\* an accessor made by one call of the factory has just assigned its
\* variable, and an accessor made by another call still reads another value
C4_Witness ==
  /\ last.op = "OP_SET_UPVALUE"
  /\ \E p \in Captures, q \in Captures :
        /\ p[1] = currentFrame.closure
        /\ heap[p[1]].fn = Accessor /\ heap[q[1]].fn = Accessor
        /\ VarOf(p)[3] # VarOf(q)[3]
        /\ VarOf(p)[2] = VarOf(q)[2]
        /\ UpvalueRead(heap, stack, CellOf(p)) = Num(2)
        /\ UpvalueRead(heap, stack, CellOf(q)) = Num(1)

(* C5: after collectGarbage every object that was tracked and is          *)
(* reachable from a root (stack slot, global value, frame closure, open    *)
(* upvalue) along the edges closure -> upvalues, closed upvalue -> closed  *)
(* value, class -> method values, instance -> class and field values,      *)
(* bound method -> receiver and method, is still tracked.                  *)
ObjsOf(values) == {values[k].v : k \in {n \in 1..Len(values) : values[n].t = "obj"}}

Roots ==
  ObjsOf(stack) \cup ObjsOf(TableValuesOf(globals, 1))
    \cup {frames[k].closure : k \in 1..Len(frames)}
    \cup {openUpvalues[k] : k \in 1..Len(openUpvalues)}

Edges(o) ==
  CASE heap[o].kind = "closure" -> {heap[o].upvalues[k] : k \in 1..Len(heap[o].upvalues)}
    [] heap[o].kind = "upvalue" ->
         IF heap[o].location = -1 THEN ObjsOf(<<heap[o].closed>>) ELSE {}
    [] heap[o].kind = "class" -> ObjsOf(TableValuesOf(Methods(heap, o), 1))
    [] heap[o].kind = "instance" ->
         {heap[o].klass} \cup ObjsOf(TableValuesOf(Fields(heap, o), 1))
    [] heap[o].kind = "bound" -> {heap[o].receiver, heap[o].method}
    [] OTHER -> {}

RECURSIVE ReachFrom(_)
ReachFrom(set) ==
  LET next == set \cup UNION {Edges(o) : o \in set}
  IN IF next = set THEN set ELSE ReachFrom(next)

Reachable == ReachFrom(Roots)

C5_ReachableStaysTracked ==
  last.op = "collectGarbage" =>
     \A o \in last.before : o \in Reachable => o \in gc.objects

(* C6: when collectGarbage has returned, no object is tracked that had no  *)
(* path from a root when the cycle started.                                *)
C6_UnreachableReclaimed ==
  last.op = "collectGarbage" =>
     \A o \in last.before : o \notin Reachable => o \notin gc.objects

\* a cycle has just reclaimed an unreachable bound method and kept the
\* instance on the stack
C6_Witness ==
  /\ last.op = "collectGarbage"
  /\ \E o \in last.before :
        o \notin Reachable /\ o \notin gc.objects /\ heap[o].kind = "bound"
  /\ \E o \in gc.objects : IsObj(peek(stack, 0), "instance") /\ o = peek(stack, 0).v

(* C7: once OP_INHERIT has defined a subclass from a superclass, an       *)
(* insert or update (OP_METHOD) or a delete in the superclass's method     *)
(* table leaves every method lookup on the subclass as it was.             *)
C7_SuperclassChangeLeavesSubclass ==
  last.op \in {"OP_METHOD", "methods.delete"} =>
     \A d \in Classes(heap) :
        heap[d].super = last.klass =>
           \A n \in MethodNames : TableGet(Methods(heap, d), n) = last.before[d][n]

\* the superclass's method m, which the subclass inherited, has just been
\* replaced or deleted, and the subclass still finds the inherited closure
C7_Witness ==
  /\ last.op \in {"OP_METHOD", "methods.delete"}
  /\ \E d \in Classes(heap) :
        /\ heap[d].super = last.klass
        /\ TableGet(Methods(heap, d), "m") # UNDEFINED
        /\ TableGet(Methods(heap, d), "m") = last.before[last.klass]["m"]
        /\ TableGet(Methods(heap, last.klass), "m") # TableGet(Methods(heap, d), "m")

(* C8: right after OP_SET_LOCAL, OP_SET_GLOBAL on a defined global, or    *)
(* OP_SET_UPVALUE, the stack is as high as before, the assigned value is   *)
(* still on top, and what the matching get instruction would push next is  *)
(* that value.                                                             *)
C8_SetKeepsValueOnTop ==
  /\ last.op \in {"OP_SET_LOCAL", "OP_SET_UPVALUE"}
       \/ (last.op = "OP_SET_GLOBAL" /\ last.defined)
     => /\ result = "running"
        /\ Len(stack) = last.height
        /\ peek(stack, 0) = last.value
  /\ last.op = "OP_SET_LOCAL" =>
        StackAt(stack, currentFrame.base + last.slot) = last.value
  /\ (last.op = "OP_SET_GLOBAL" /\ last.defined) =>
        TableGet(globals, last.name) = last.value
  /\ last.op = "OP_SET_UPVALUE" =>
        UpvalueRead(heap, stack, heap[currentFrame.closure].upvalues[last.slot + 1])
           = last.value

\* an accessor has just assigned, through an open upvalue, a value other
\* than the one a global holds, while a local holds the assigned value
C8_Witness ==
  /\ last.op = "OP_SET_UPVALUE"
  /\ heap[heap[currentFrame.closure].upvalues[1]].location >= 0
  /\ StackAt(stack, heap[heap[currentFrame.closure].upvalues[1]].location) = Num(2)
  /\ TableGet(globals, "a") = Num(1)

\* the same for a closed upvalue, for a local and for a global
C8_WitnessClosed ==
  /\ last.op = "OP_SET_UPVALUE"
  /\ heap[heap[currentFrame.closure].upvalues[1]].location = -1
  /\ heap[heap[currentFrame.closure].upvalues[1]].closed = Num(2)

C8_WitnessLocal ==
  last.op = "OP_SET_LOCAL" /\ StackAt(stack, 1) = Num(2) /\ OpenAt(1) # {}

C8_WitnessGlobal ==
  last.op = "OP_SET_GLOBAL" /\ last.defined /\ last.before["a"] = Num(1)
     /\ TableGet(globals, "a") = Num(2)

(* C9: right after OP_CALL on a callee (closure, native, bound method,    *)
(* class with init, class without init) whose arity differs from the       *)
(* argument count, the run has ended with RUNTIME_ERROR and there are as   *)
(* many frames as before.                                                  *)
C9_ArityMismatchIsError ==
  (last.op = "OP_CALL" /\ last.kind # "none" /\ last.argCount # last.arity) =>
     result = "RUNTIME_ERROR" /\ Len(frames) = last.frames

\* the same for every kind of callee but the native function
C9_ArityMismatchIsErrorButNative ==
  (last.op = "OP_CALL" /\ last.kind \notin {"none", "native"}
     /\ last.argCount # last.arity) =>
     result = "RUNTIME_ERROR" /\ Len(frames) = last.frames

(* C10: there are never more than 64 call frames, and right after OP_CALL *)
(* on a closure, bound method or class with init executed with 64 frames   *)
(* active, the run has ended with RUNTIME_ERROR and no frame was pushed.   *)
C10_FrameLimit ==
  /\ Len(frames) <= FRAMES_MAX
  /\ (last.op = "OP_CALL" /\ last.frames = FRAMES_MAX
        /\ last.kind \in {"closure", "bound", "class with init"}) =>
       result = "RUNTIME_ERROR" /\ Len(frames) = FRAMES_MAX

\* a call of the right arity has just been refused with 64 frames active
C10_Witness ==
  /\ last.op = "OP_CALL" /\ last.frames = FRAMES_MAX
  /\ last.kind = "closure" /\ last.argCount = last.arity
  /\ result = "RUNTIME_ERROR"
  /\ Len(frames) = FRAMES_MAX

---------------------------------------------------------------------------
(* C11: when OP_RETURN executes in a frame with base b that is not the     *)
(* outermost frame, every upvalue that was open on a slot at index b or    *)
(* above is afterwards closed and holds the value its slot had, the stack  *)
(* has exactly b + 1 entries with the return value on top, and the frame   *)
(* has been removed from the frame stack.                                  *)
C11_ReturnClosesAndUnwinds ==
  (last.op = "OP_RETURN" /\ last.frames > 1) =>
    /\ \A p \in last.open : heap[p[1]].location = -1 /\ heap[p[1]].closed = p[2]
    /\ Len(stack) = last.base + 1
    /\ peek(stack, 0) = last.value
    /\ Len(frames) = last.frames - 1

\* the factory returned while an upvalue was open on its local, to which an
\* accessor had assigned 2
C11_Witness ==
  /\ last.op = "OP_RETURN" /\ last.frames > 1
  /\ \E p \in last.open : p[2] = Num(2) /\ heap[p[1]].closed = Num(2)

---------------------------------------------------------------------------
\* the upvalues that exist
Upvalues(h) == {u \in 1..Len(h) : h[u].kind = "upvalue"}

\* the upvalue OP_GET_UPVALUE / OP_SET_UPVALUE slot of the running closure uses
UpvalueOfSlot(slot) == heap[currentFrame.closure].upvalues[slot + 1]

(* C12: every upvalue changes state at most once, from open to closed:     *)
(* close is never applied to an upvalue that is already closed, a closed   *)
(* upvalue never again refers to a stack slot, and from then on its reads  *)
(* and writes use only its own closed value.                               *)
C12_UpvalueClosesOnce ==
  /\ [](\A u \in Upvalues(heap) :
          /\ heap[u].closes <= 1
          /\ heap[u].closes = 1 <=> heap[u].location < 0)
  /\ [][\A u \in Upvalues(heap) : heap[u].location < 0 =>
          /\ heap'[u].location < 0
          /\ (last'.op = "OP_GET_UPVALUE" /\ UpvalueOfSlot(last'.slot) = u) =>
                peek(stack', 0) = heap[u].closed
          /\ (last'.op = "OP_SET_UPVALUE" /\ UpvalueOfSlot(last'.slot) = u) =>
                stack' = stack /\ heap'[u].closed = peek(stack, 0)
          /\ (~(last'.op = "OP_SET_UPVALUE" /\ UpvalueOfSlot(last'.slot) = u)) =>
                heap'[u].closed = heap[u].closed]_vars

\* an accessor has assigned 2 to its upvalue after the upvalue was closed
C12_Witness ==
  /\ last.op = "OP_SET_UPVALUE" /\ last.value = Num(2)
  /\ heap[UpvalueOfSlot(last.slot)].location < 0
  /\ heap[UpvalueOfSlot(last.slot)].closes = 1
  /\ heap[UpvalueOfSlot(last.slot)].closed = Num(2)

---------------------------------------------------------------------------
\* the entries of Table t that hold key name
EntriesOf(t, name) == {i \in 1..t.capacity : t.entries[i].key = name}

(* C13: OP_GET_PROPERTY on an instance yields the field's value whenever   *)
(* the instance's field table contains the name (even if its class has a   *)
(* method of that name); otherwise it yields a bound method pairing that   *)
(* same instance with the class's method of that name; otherwise it        *)
(* returns RUNTIME_ERROR; and on a receiver that is not an instance it     *)
(* returns RUNTIME_ERROR.                                                  *)
C13_GetPropertyOrder ==
  last.op = "OP_GET_PROPERTY" =>
    LET h == last.heap
        r == last.receiver
        isInstance == r.t = "obj" /\ h[r.v].kind = "instance"
        fields == Fields(h, r.v)
        methods == Methods(h, h[r.v].klass)
        top == peek(stack, 0)
    IN IF ~isInstance THEN result = "RUNTIME_ERROR"
       ELSE IF EntriesOf(fields, last.name) # {}
       THEN /\ Running /\ Len(stack) = last.height
            /\ \E i \in EntriesOf(fields, last.name) : top = fields.entries[i].value
       ELSE IF EntriesOf(methods, last.name) # {}
       THEN /\ Running /\ Len(stack) = last.height
            /\ top.t = "obj" /\ heap[top.v].kind = "bound"
            /\ heap[top.v].receiver = r.v
            /\ \E i \in EntriesOf(methods, last.name) :
                  Obj(heap[top.v].method) = methods.entries[i].value
       ELSE result = "RUNTIME_ERROR"

\* the read of m on an instance whose field m holds 1 and whose class has a
\* method m yielded 1
C13_Witness ==
  /\ last.op = "OP_GET_PROPERTY" /\ last.name = "m"
  /\ IsObj(last.receiver, "instance")
  /\ EntriesOf(Fields(last.heap, last.receiver.v), "m") # {}
  /\ EntriesOf(Methods(last.heap, heap[last.receiver.v].klass), "m") # {}
  /\ peek(stack, 0) = Num(1)

\* the read of m on an instance without that field yielded a bound method
C13_WitnessBound ==
  /\ last.op = "OP_GET_PROPERTY" /\ last.name = "m"
  /\ IsObj(last.receiver, "instance") /\ IsObj(peek(stack, 0), "bound")

\* the read of a property of a number or of a class, and the read of a
\* property an instance has neither as field nor as method, failed
C13_WitnessNoInstance ==
  /\ last.op = "OP_GET_PROPERTY" /\ ~IsObj(last.receiver, "instance")
  /\ result = "RUNTIME_ERROR"

C13_WitnessUndefined ==
  /\ last.op = "OP_GET_PROPERTY" /\ IsObj(last.receiver, "instance")
  /\ result = "RUNTIME_ERROR"

---------------------------------------------------------------------------
(* What the call receiver.name(arguments) yields when it is executed as    *)
(* OP_GET_PROPERTY, the arguments and OP_CALL, from the state in which     *)
(* OP_INVOKE found the receiver below argCount arguments.  When the lookup *)
(* fails OP_GET_PROPERTY returns RUNTIME_ERROR with the receiver on top:   *)
(* the arguments are never evaluated.  Otherwise the callee is the field   *)
(* or the bound method; callValue puts the bound receiver in the callee's  *)
(* slot and a closure gets a frame on that slot when call() accepts it.    *)
GetThenCall ==
  LET h == last.heap
      r == last.receiver
      slot == Len(last.stack) - last.argCount
      isInstance == r.t = "obj" /\ h[r.v].kind = "instance"
      field == TableGet(Fields(h, r.v), last.name)
      method == TableGet(Methods(h, h[r.v].klass), last.name)
      found == IF isInstance THEN PropertyCase(field, method) ELSE "undefined"
      closure == IF found = "field" THEN field ELSE method
      callable == \/ found = "method"
                  \/ found = "field" /\ field.t = "obj" /\ h[field.v].kind = "closure"
      accepted == callable /\ call(h, closure.v, last.argCount, last.frames) = "ok"
  IN [result |-> IF accepted THEN "running" ELSE "RUNTIME_ERROR",
      stack |-> IF found = "undefined" THEN Truncate(last.stack, slot)
                ELSE IF found = "field" THEN [last.stack EXCEPT ![slot] = field]
                ELSE last.stack,
      frame |-> IF accepted THEN <<closure.v, slot - 1>> ELSE <<>>]

(* C14: for every receiver, property name and arguments, a method call     *)
(* executed through OP_INVOKE produces the same result, final operand      *)
(* stack and error outcome as the same call executed as OP_GET_PROPERTY    *)
(* followed by the arguments and OP_CALL, including when a field with the  *)
(* name of a method exists on the receiver.                                *)
C14_InvokeMatchesGetThenCall ==
  last.op = "OP_INVOKE" =>
    /\ result = GetThenCall.result
    /\ stack = GetThenCall.stack
    /\ GetThenCall.frame # <<>> =>
          /\ Len(frames) = last.frames + 1
          /\ <<currentFrame.closure, currentFrame.base>> = GetThenCall.frame

\* the same, for the calls whose lookup succeeds or that have no argument
C14_InvokeMatchesWhenFoundOrNoArgument ==
  (last.op = "OP_INVOKE" /\ (result = "running" \/ last.argCount = 0)) =>
    /\ result = GetThenCall.result
    /\ stack = GetThenCall.stack
    /\ GetThenCall.frame # <<>> =>
          /\ Len(frames) = last.frames + 1
          /\ <<currentFrame.closure, currentFrame.base>> = GetThenCall.frame

\* OP_GET_PROPERTY that fails leaves the stack as it found it: no argument
\* has been pushed
C14_GetPropertyFailsBeforeArguments ==
  (last.op = "OP_GET_PROPERTY" /\ result = "RUNTIME_ERROR") =>
    Len(stack) = last.height /\ peek(stack, 0) = last.receiver

---------------------------------------------------------------------------
\* the 0-based positions of the text that lie inside a string literal: an
\* odd number of quotes precedes them (the texts explored have no comment)
QuotesBefore(source, i) == Cardinality({k \in 1..i : source[k] = "\""})
InString(source, i) == source[i + 1] # "\"" /\ QuotesBefore(source, i) % 2 = 1

\* the characters scanToken has a case for
Recognized ==
  AlphaChars \cup DigitChars \cup {k[1] : k \in SingleChar} \cup {k[1] : k \in WithEqual}
    \cup {"\"", " ", "\r", "\t", "\n"}

(* C20: scanToken never throws: an unterminated string or an unrecognized  *)
(* character yields one ERROR token carrying a diagnostic message, and the *)
(* following scanToken calls keep scanning the rest of the input until EOF *)
(* is returned.                                                            *)
C20_ScanErrorsAreTokens ==
  comp.op = "scan" =>
    LET source == comp.sc.source
        tokens == comp.tokens
        done == tokens # <<>> /\ tokens[Len(tokens)].type = "EOF"
        errorsAt(i) == {k \in 1..Len(tokens) : tokens[k].type = "ERROR" /\ tokens[k].start = i}
    IN /\ Len(tokens) <= Len(source) + 1
       /\ \A k \in 1..Len(tokens) :
            /\ tokens[k].type = "ERROR" => tokens[k].message # <<>>
            /\ k > 1 => tokens[k].start > tokens[k - 1].start
            /\ tokens[k].type = "EOF" => tokens[k].start = Len(source)
       /\ done =>
            \A i \in 0..(Len(source) - 1) :
              /\ (source[i + 1] \notin Recognized /\ ~InString(source, i)) =>
                    /\ Cardinality(errorsAt(i)) = 1
                    /\ \A k \in errorsAt(i) :
                          tokens[k].message = <<"Unexpected character", source[i + 1]>>
              /\ (source[i + 1] = "\"" /\ QuotesBefore(source, i) % 2 = 0
                    /\ QuotesBefore(source, Len(source)) = QuotesBefore(source, i) + 1) =>
                    /\ Cardinality(errorsAt(i)) = 1
                    /\ \A k \in errorsAt(i) :
                          tokens[k].message = <<"Unterminated string.">>

\* EOF was returned after an unexpected character, a token and an
\* unterminated string each gave their token
C20_Witness ==
  /\ comp.op = "scan"
  /\ Len(comp.tokens) = 4
  /\ comp.tokens[1].message = <<"Unexpected character", "@">>
  /\ comp.tokens[2].type = "IDENTIFIER"
  /\ comp.tokens[3].message = <<"Unterminated string.">>
  /\ comp.tokens[4].type = "EOF"

\* C17: compiling a text on a Compiler that has compiled before, whatever
\* the earlier call's result, gives the same code bytes, constants, lines
\* and the same success or failure as compiling it on a fresh Compiler.
C17_CompileIsRepeatable ==
  (comp.op = "compile" /\ comp.calls > 0) =>
     LET fresh == compile(NewCompiler, comp.source)
     IN /\ fresh.outcome = comp.outcome
        /\ fresh.c.code = comp.c.code
        /\ fresh.c.constants = comp.c.constants
        /\ fresh.c.lines = comp.c.lines
        /\ fresh.c.errors = comp.c.errors

\* a second call that succeeds with a constant after a first call that failed
C17_Witness ==
  /\ comp.op = "compile"
  /\ comp.calls = 2
  /\ comp.before = "null"
  /\ comp.outcome = "chunk"
  /\ comp.c.constants # <<>>

\* C18: compile(source) never throws, whatever the text.
C18_CompileNeverThrows ==
  comp.op = "compile" => comp.outcome # "throws"

\* C18, the part that holds: a call that returns gives null exactly when it
\* reported an error, and its chunk ends with OP_RETURN otherwise.
C18_NullExactlyOnError ==
  (comp.op = "compile" /\ comp.outcome \in {"null", "chunk"}) =>
     /\ (comp.outcome = "null") <=> (comp.c.errors # <<>>)
     /\ comp.outcome = "chunk" => comp.c.code[Len(comp.c.code)] = "OP_RETURN"


\* the declarations of the pass that met an error while in panic mode
\* after an earlier declaration had an error reported
MutedAfterReport(c) ==
  { d \in c.muted : \E i \in 1..Len(c.errors) : c.errors[i].decl \in 1..(d - 1) }

\* C19: suppression ends with the resynchronization that closes a
\* declaration: whenever a later declaration of the same pass meets an
\* error, an error of that declaration is reported.
C19_LaterStatementErrorReported ==
  (comp.op = "program" /\ comp.calls = 1) =>
     \A d \in MutedAfterReport(comp.c) :
        \E i \in 1..Len(comp.c.errors) : comp.c.errors[i].decl = d

\* C19, the part that holds: when the text holds no character the scanner
\* rejects, every later declaration that meets an error has one reported,
\* so a pass over two malformed statements reports both.
C19_ReportedWithoutScanError ==
  (comp.op = "program" /\ comp.calls = 1
     /\ \A i \in 1..Len(comp.source) : comp.source[i] # "@") =>
     \A d \in MutedAfterReport(comp.c) :
        \E i \in 1..Len(comp.c.errors) : comp.c.errors[i].decl = d

\* a pass that reports an error of its first and of its second declaration
C19_WitnessBothReported ==
  /\ comp.op = "program"
  /\ comp.calls = 1
  /\ \A i \in 1..Len(comp.source) : comp.source[i] # "@"
  /\ Len(comp.c.errors) = 2
  /\ comp.c.errors[1].decl = 1
  /\ comp.c.errors[2].decl = 2

\* the compilers, the current one first, that hold a local declared under
\* the name
Declaring_(cs, name) ==
  {level \in 1..Len(cs) : \E i \in 1..Len(cs[level].locals) : cs[level].locals[i].text = name}

\* the slot of the innermost local of a compiler declared under the name
InnermostLocal(fc, name) ==
  (CHOOSE i \in 1..Len(fc.locals) :
      /\ fc.locals[i].text = name
      /\ \A j \in 1..Len(fc.locals) : fc.locals[j].text = name => j <= i) - 1

\* the local that an upvalue of the compiler at a level stands for
RECURSIVE CapturedLocal(_, _, _)
CapturedLocal(cs, level, index) ==
  LET up == cs[level].upvalues[index + 1]
  IN IF up.isLocal THEN <<level - 1, up.index>>
     ELSE CapturedLocal(cs, level - 1, up.index)

\* C16: a read of a name is a read of the innermost local of the current
\* function declared under it; without one, of the captured innermost
\* local of the nearest enclosing function that declares one; and only
\* without any of these a read of the global of that name.
C16_ResolutionOrder ==
  (comp.op = "resolve" /\ comp.last.getOp # "none") =>
     LET cs == comp.compilers
         current == Len(cs)
         holders == Declaring_(cs, comp.last.name)
     IN IF current \in holders
        THEN /\ comp.last.getOp = "OP_GET_LOCAL"
             /\ comp.last.arg = InnermostLocal(cs[current], comp.last.name)
        ELSE IF holders # {}
        THEN LET nearest == CHOOSE l \in holders : \A k \in holders : k <= l
             IN /\ comp.last.getOp = "OP_GET_UPVALUE"
                /\ CapturedLocal(cs, current, comp.last.arg)
                     = <<nearest, InnermostLocal(cs[nearest], comp.last.name)>>
        ELSE /\ comp.last.getOp = "OP_GET_GLOBAL"
             /\ comp.last.global = comp.last.name

\* every hidden local is held under the word it stands for
HiddenNamesFound ==
  \A level \in 1..Len(comp.compilers) :
     \A i \in 1..Len(comp.compilers[level].locals) :
        LET local == comp.compilers[level].locals[i]
        IN getLexeme(comp.source, local.name) = local.text

\* C16, the part that holds: the order is kept whenever the text holds the
\* word of every hidden local in use.
C16_ResolutionOrderWhenHiddenNamesFound ==
  (comp.op = "resolve" /\ HiddenNamesFound) => C16_ResolutionOrder

\* a name read through two levels of capture while the script holds a
\* local of the same name further out
C16_WitnessNearest ==
  /\ comp.op = "resolve"
  /\ HiddenNamesFound
  /\ Len(comp.compilers) = 3
  /\ comp.last.getOp = "OP_GET_UPVALUE"
  /\ Declaring_(comp.compilers, comp.last.name) = {1, 2}

\* a global read while locals of another name are in scope
C16_WitnessGlobal ==
  /\ comp.op = "resolve"
  /\ HiddenNamesFound
  /\ comp.last.getOp = "OP_GET_GLOBAL"
  /\ \E i \in 1..Len(currentCompiler.locals) : currentCompiler.locals[i].depth > 0

\* what the superclass of the receiver's class holds under a name
SuperMethod(this, name) ==
  TableGet(Methods(heap, heap[heap[this.v].klass].super), name)

\* C15: the method that OP_SUPER_INVOKE starts has in slot 0 the instance
\* in slot 0 of the method that executes the super call, and is the closure
\* the superclass's method table holds under the name; the bound method
\* that OP_GET_SUPER leaves has that instance and that closure.
C15_SuperBindsCurrentReceiver ==
  /\ (last.op = "OP_SUPER_INVOKE" /\ Len(frames) = last.frames + 1) =>
        /\ IsObj(last.this, "instance")
        /\ StackAt(stack, currentFrame.base) = last.this
        /\ Obj(currentFrame.closure) = SuperMethod(last.this, last.name)
  /\ (last.op = "OP_GET_SUPER" /\ Running) =>
        /\ IsObj(last.this, "instance")
        /\ IsObj(peek(stack, 0), "bound")
        /\ Obj(heap[peek(stack, 0).v].receiver) = last.this
        /\ Obj(heap[peek(stack, 0).v].method) = SuperMethod(last.this, last.name)

\* C15, the part that holds: the same, when the program's text holds the
\* word this.
C15_SuperBindsCurrentReceiverWhenThisFound ==
  (comp.op = "super" /\ indexOf(comp.source, ThisText) >= 0) =>
     C15_SuperBindsCurrentReceiver

\* a super call that started the superclass's method while the calling
\* method held a local of its own, in a text that holds the word this
C15_WitnessInvoke ==
  /\ comp.op = "super"
  /\ indexOf(comp.source, ThisText) >= 0
  /\ last.op = "OP_SUPER_INVOKE"
  /\ Len(frames) = last.frames + 1
  /\ Len(comp.fc.locals) = 2

\* a bound method made by OP_GET_SUPER in such a text
C15_WitnessGet ==
  /\ comp.op = "super"
  /\ indexOf(comp.source, ThisText) >= 0
  /\ last.op = "OP_GET_SUPER"
  /\ Running
  /\ Len(comp.fc.locals) = 2

\* the sixteen reserved words, each with the token type of its name
ReservedWords ==
  { <<"a", "n", "d">>, <<"c", "l", "a", "s", "s">>, <<"e", "l", "s", "e">>,
    <<"f", "a", "l", "s", "e">>, <<"f", "o", "r">>, <<"f", "u", "n">>, <<"i", "f">>,
    <<"n", "i", "l">>, <<"o", "r">>, <<"p", "r", "i", "n", "t">>,
    <<"r", "e", "t", "u", "r", "n">>, <<"s", "u", "p", "e", "r">>,
    <<"t", "h", "i", "s">>, <<"t", "r", "u", "e">>, <<"v", "a", "r">>,
    <<"w", "h", "i", "l", "e">> }

ReservedTypes ==
  {"AND", "CLASS", "ELSE", "FALSE", "FOR", "FUN", "IF", "NIL", "OR", "PRINT", "RETURN",
   "SUPER", "THIS", "TRUE", "VAR", "WHILE"}

\* the tokens scanned so far whose lexeme is an identifier lexeme
IdentifierLexemes ==
  {i \in 1..Len(comp.tokens) :
     /\ comp.tokens[i].type \notin {"ERROR", "EOF"}
     /\ isAlpha(getLexeme(comp.sc.source, comp.tokens[i])[1])}

\* the type of the i-th token is as the words say
TypedByWord(i) ==
  LET word == getLexeme(comp.sc.source, comp.tokens[i])
  IN IF word \in ReservedWords
     THEN /\ comp.tokens[i].type \in ReservedTypes
          /\ <<word, comp.tokens[i].type>> \in Keywords
     ELSE comp.tokens[i].type = "IDENTIFIER"

\* C21: a token whose lexeme is an identifier lexeme has a reserved-word
\* type exactly when the lexeme is one of the sixteen reserved words, and
\* the type IDENTIFIER otherwise.
C21_ReservedExactlySixteen ==
  comp.op = "words" => \A i \in IdentifierLexemes : TypedByWord(i)

\* C21, the part that holds: the same for every lexeme that is no name of
\* a member of Object.prototype
C21_ReservedExceptObjectMembers ==
  comp.op = "words" =>
    \A i \in IdentifierLexemes :
       getLexeme(comp.sc.source, comp.tokens[i]) \notin InheritedProperties => TypedByWord(i)

\* a reserved word and another identifier scanned from one text
C21_WitnessBoth ==
  /\ comp.op = "words"
  /\ \E i, j \in IdentifierLexemes :
        /\ comp.tokens[i].type = "OR"
        /\ comp.tokens[j].type = "IDENTIFIER"

\* the operands the last instruction found are acceptable to it
OperandsFit ==
  IF last.op = "OP_NEGATE" THEN last.b.t = "number"
  ELSE IF last.op = "OP_ADD"
  THEN \/ last.a.t = "number" /\ last.b.t = "number"
       \/ last.a.t = "string" /\ last.b.t = "string"
  ELSE last.a.t = "number" /\ last.b.t = "number"

\* C22: after a binary arithmetic or comparison instruction, OP_ADD or
\* OP_NEGATE whose operands do not fit, run() has returned RUNTIME_ERROR
\* with the stack as the instruction found it, and from a state in which
\* run() has returned RUNTIME_ERROR no instruction is executed.
C22_TypeErrorStopsRun ==
  /\ [](( /\ comp.op = "run"
          /\ last.op \in BinaryOps \cup {"OP_ADD", "OP_NEGATE"}
          /\ ~OperandsFit )
        => (result = "RUNTIME_ERROR" /\ Len(stack) = last.held /\ comp.ip = last.ip + 1))
  /\ [][result # "RUNTIME_ERROR"]_vars

\* a comparison of a number with a string, and a negation of a boolean, stopped the run
C22_Witness ==
  /\ comp.op = "run"
  /\ result = "RUNTIME_ERROR"
  /\ \/ last.op = "OP_LESS" /\ last.a.t = "number" /\ last.b.t = "string"
     \/ last.op = "OP_ADD" /\ last.a.t = "string" /\ last.b.t = "number"

\* the number of operands an instruction takes from the stack
Needs(op) ==
  CASE op \in {"OP_POP", "OP_PRINT", "OP_NOT", "OP_NEGATE"} -> 1
    [] op \in BinaryOps \cup {"OP_ADD", "OP_EQUAL"} -> 2
    [] OTHER -> 0

\* C23: an instruction that found fewer operands on the stack than it
\* needs ends the run with the thrown internal Error: run() has returned
\* neither OK nor RUNTIME_ERROR and still is not running.
C23_UnderflowIsFatal ==
  (comp.op = "run" /\ last.held < Needs(last.op)) => result = "Error"

\* C23, the part that holds: the same for the instructions that take their
\* operands with pop() before looking at them
C23_UnderflowIsFatalWhenPopped ==
  (comp.op = "run" /\ last.held < Needs(last.op)
     /\ last.op \in {"OP_POP", "OP_PRINT", "OP_NOT", "OP_EQUAL"}) => result = "Error"

\* OP_EQUAL with one operand threw
C23_WitnessEqual ==
  comp.op = "run" /\ last.op = "OP_EQUAL" /\ last.held = 1 /\ result = "Error"

\* the slots of a table that hold a live entry or a tombstone
Occupied(t) ==
  {i \in 1..Len(t.entries) : t.entries[i].key # NoKey \/ t.entries[i].isDeleted}

Tombstones(t) == {i \in 1..Len(t.entries) : t.entries[i].isDeleted}

\* C24: in every state of a Table with capacity above zero, the live
\* entries and the tombstones together fill at most 0.75 of the capacity.
C24_LoadFactor ==
  tbl.capacity > 0 =>
     /\ Len(tbl.entries) = tbl.capacity
     /\ Cardinality(Occupied(tbl)) * 4 <= tbl.capacity * 3

\* a table grown past its first capacity that holds live entries and a tombstone
C24_Witness ==
  /\ tbl.capacity > 8
  /\ Tombstones(tbl) # {}
  /\ Occupied(tbl) # Tombstones(tbl)

\* a table of the first capacity filled to 0.75 of it, a tombstone among the slots
C24_WitnessFull ==
  /\ tbl.capacity = 8
  /\ Tombstones(tbl) # {}
  /\ Cardinality(Occupied(tbl)) * 4 = tbl.capacity * 3

\* C25: in every state of a Table, set(k, v) returns true exactly when k
\* is not present: it was never set, or it was deleted since it was last
\* set, whether or not the slot it takes is a tombstone.
C25_SetReportsNewKey ==
  comp = NoFrontEnd =>
    \A k \in Keys, v \in TableValues :
       TableSet(tbl, k, v).ret = (shadow[k] = UNDEFINED)

\* after sets and deletes: a key that is present, and an absent key whose
\* set takes a tombstone
C25_Witness ==
  /\ comp = NoFrontEnd
  /\ tbl.capacity > 0
  /\ \E k \in Keys : shadow[k] # UNDEFINED /\ ~TableSet(tbl, k, shadow[k]).ret
  /\ \E k \in Keys :
        /\ shadow[k] = UNDEFINED
        /\ tbl.entries[findEntry(tbl, k) + 1].isDeleted
        /\ TableSet(tbl, k, Num(1)).ret

(* C27: collectGarbage terminates on every heap: once the cycle has       *)
(* marked its roots, it reaches the return of sweep, also on heaps whose   *)
(* objects refer to each other in a circle and on heaps where an object is *)
(* reachable along several paths.                                          *)
C27_CycleTerminates == (comp.phase = "trace") ~> (comp.phase = "idle")

\* a cycle has returned on a heap where a tracked instance's field holds a
\* bound method of that instance; the cycle reached the instance along two
\* paths, from a global and from the bound method on the stack
C27_Witness ==
  /\ last.op = "collectGarbage"
  /\ \E b \in gc.objects :
        /\ heap[b].kind = "bound"
        /\ heap[b].receiver \in gc.objects
        /\ TableGet(Fields(heap, heap[b].receiver), "x") = Obj(b)
        /\ peek(stack, 0) = Obj(b)
        /\ TableGet(globals, "a") = Obj(heap[b].receiver)
        /\ comp.blackened[heap[b].receiver] = 2

(* C28: within one cycle no object is blackened more than once.            *)
C28_BlackenedOnce ==
  comp.phase = "trace" => \A o \in DOMAIN comp.blackened : comp.blackened[o] <= 1

\* the step that greys and pushes an object finds it white, and pushes it once
Occurrences(seq, o) == Cardinality({i \in DOMAIN seq : seq[i] = o})

C28_PushedOnlyWhenWhite ==
  [][\A o \in gc.objects :
        Occurrences(gc'.greyStack, o) > Occurrences(gc.greyStack, o) =>
           /\ gc.mark[o] = "white"
           /\ Occurrences(gc'.greyStack, o) = Occurrences(gc.greyStack, o) + 1]_vars

(* C29: when collectGarbage has returned, the grey worklist is empty and   *)
(* every tracked object is white.                                          *)
C29_CleanAfterCycle ==
  comp.phase = "idle" =>
     /\ gc.greyStack = <<>>
     /\ \A o \in gc.objects : gc.mark[o] = "white"

\* a cycle has returned and has kept a tracked object that it blackened
C29_Witness ==
  /\ last.op = "collectGarbage"
  /\ \E o \in gc.objects : comp.blackened[o] >= 1 /\ heap[o].kind = "instance"

C26_AllocatedStaysTracked ==
  last.op = "OP_CLOSURE" =>
     \A k \in DOMAIN last.allocs :
        /\ last.allocs[k].limbo \subseteq {last.allocs[k].id}
        /\ last.allocs[k].id \in gc.objects

\* the allocation of a closure's upvalue has run a cycle
C26_WitnessUpvalue ==
  /\ last.op = "OP_CLOSURE"
  /\ \E k \in DOMAIN last.allocs :
        last.allocs[k].ran /\ heap[last.allocs[k].id].kind = "upvalue"

C30_WitnessFloor ==
  /\ last.op = "OP_CLOSURE"
  /\ \E k \in DOMAIN last.allocs :
        /\ last.allocs[k].ran
        /\ last.allocs[k].gcThreshold = GcFloor
        /\ 2 * last.allocs[k].survivors < GcFloor

(* C31: the open-upvalue list holds only open upvalues, in strictly       *)
(* descending order of their stack slots (hence at most one per slot),     *)
(* and a closure created over a slot that has an open upvalue gets that    *)
(* upvalue.                                                                *)
C31_OpenListSorted ==
  /\ \A k \in DOMAIN openUpvalues :
        /\ heap[openUpvalues[k]].kind = "upvalue"
        /\ heap[openUpvalues[k]].location >= 0
        /\ heap[openUpvalues[k]].closes = 0
  /\ \A k \in 1..(Len(openUpvalues) - 1) :
        heap[openUpvalues[k]].location > heap[openUpvalues[k + 1]].location
  /\ \A u \in 1..Len(heap) :
        heap[u].kind = "upvalue" /\ heap[u].location >= 0 =>
           \E k \in DOMAIN openUpvalues : openUpvalues[k] = u

\* two upvalues are open, and the closure just created took the one that
\* an earlier closure had opened on the same slot
C31_Witness ==
  /\ Len(openUpvalues) >= 2
  /\ last.op = "OP_CLOSURE"
  /\ \E o \in 1..(last.id - 1) :
        /\ heap[o].kind = "closure"
        /\ heap[o].upvalues # <<>>
        /\ heap[o].upvalues = heap[last.id].upvalues

\* set(k, v) on t runs adjustCapacity
Grows(t) == (t.count + 1) * 4 > t.capacity * 3

\* the live entries of t
Live(t) == {i \in 1..Len(t.entries) : t.entries[i].key # NoKey}

\* t2 is t after a set of k that grew it
GrownFrom(t, t2, k) ==
  /\ t2.capacity = (IF t.capacity = 0 THEN 8 ELSE 2 * t.capacity)
  /\ Len(t2.entries) = t2.capacity
  /\ \A j \in Keys \ {k} : TableGet(t2, j) = shadow[j]
  /\ TableGet(t2, k) = Num(2)
  /\ Tombstones(t2) = {}
  /\ t2.count = Cardinality(Live(t2))

(* C32: when set(k, v) grows the table, the capacity afterwards is twice   *)
(* the capacity before (8 for a table without slots), every key that was   *)
(* present is found with its value, and no tombstone is left: count is     *)
(* the number of live entries.                                             *)
C32_GrowthKeepsEntries ==
  comp = NoFrontEnd /\ Grows(tbl) =>
    \A k \in Keys : GrownFrom(tbl, TableSet(tbl, k, Num(2)).t, k)

\* a table that holds live entries and tombstones and that the next set grows
C32_Witness ==
  /\ tbl.capacity = 8
  /\ Grows(tbl)
  /\ Tombstones(tbl) # {}
  /\ Cardinality(Live(tbl)) >= 2

\* a grown table with fewer entries than growth needs: the growth left the
\* tombstones behind
C32_WitnessGrown ==
  /\ tbl.capacity = 16
  /\ Tombstones(tbl) = {}
  /\ tbl.count = Cardinality(Live(tbl))
  /\ tbl.count * 4 < 8 * 3

(* C33: in every state of a Table with capacity above zero some slot is   *)
(* empty, neither a live entry nor a tombstone, and the probe of           *)
(* findEntry stops for every key.                                          *)
C33_ProbeStops ==
  comp = NoFrontEnd /\ tbl.capacity > 0 =>
     /\ Occupied(tbl) # 1..tbl.capacity
     /\ \A k \in Keys : findEntry(tbl, k) \in 0..(tbl.capacity - 1)

\* after sets and deletes: a tombstone lies on the probe path of an absent
\* key, whose probe passes it and stops at an empty slot
C33_Witness ==
  /\ tbl.capacity > 0
  /\ \E k \in Keys :
        /\ shadow[k] = UNDEFINED
        /\ tbl.entries[HashIndex(k, tbl.capacity) + 1].isDeleted
        /\ findEntry(tbl, k) = HashIndex(k, tbl.capacity)
        /\ \E j \in Keys : shadow[j] # UNDEFINED /\ HashIndex(j, tbl.capacity) = HashIndex(k, tbl.capacity)

(* C35: leaving a block removes from the compiler's locals exactly the     *)
(* locals declared at the depth of the block and emits one instruction for *)
(* each of them, OP_CLOSE_UPVALUE for a captured local and OP_POP          *)
(* otherwise, newest local first; the instructions take the operand stack  *)
(* from one slot per local back to the slots of the locals that were       *)
(* there before the block.                                                 *)
DeclaredAt(fc, depth) == {i \in 1..Len(fc.locals) : fc.locals[i].depth = depth}

C35_BlockLeavesNothing ==
  (comp.op = "resolve" /\ "scope" \in DOMAIN comp.last) =>
     LET before == comp.last.before
         emitted == comp.last.emitted
         removed == DeclaredAt(before, before.scopeDepth)
         kept == (1..Len(before.locals)) \ removed
     IN /\ currentCompiler.locals = SubSeq(before.locals, 1, Cardinality(kept))
        /\ kept = 1..Cardinality(kept)
        /\ Len(emitted) = Cardinality(removed)
        /\ \A j \in 1..Len(emitted) :
              emitted[j] = IF before.locals[Len(before.locals) - j + 1].isCaptured
                           THEN "OP_CLOSE_UPVALUE" ELSE "OP_POP"
        /\ ScopeExitHeight(Len(before.locals), emitted) = Cardinality(kept)

\* a block left with two locals of its own, one of them captured by an
\* inner function
C35_Witness ==
  /\ comp.op = "resolve"
  /\ "scope" \in DOMAIN comp.last
  /\ Len(comp.last.emitted) = 2
  /\ "OP_CLOSE_UPVALUE" \in {comp.last.emitted[j] : j \in 1..2}
  /\ "OP_POP" \in {comp.last.emitted[j] : j \in 1..2}

(* C36: every jump the VM takes lands where the compiler aimed it: a        *)
(* forward jump patched by patchJump at the offset code.length had when it *)
(* was patched, an OP_LOOP at the loopStart given to emitLoop; readShort   *)
(* reads the distance the compiler wrote, high byte first.                 *)
Aim(at) == CHOOSE target \in 0..Len(comp.code) : <<at, target>> \in comp.targets

Jumped == comp.op = "flow" /\ last.op \in {"OP_JUMP", "jump if false", "OP_LOOP"}

C36_JumpsLandWhereAimed ==
  Jumped =>
     /\ \E target \in 0..Len(comp.code) : <<last.ip, target>> \in comp.targets
     /\ \A target \in 0..Len(comp.code) :
           <<last.ip, target>> \in comp.targets => comp.ip = target
     /\ last.short = IF last.op = "OP_LOOP" THEN last.ip + 3 - comp.ip
                     ELSE comp.ip - (last.ip + 3)

\* a forward jump over more than 255 bytes was taken
C36_Witness ==
  /\ Jumped
  /\ last.op # "OP_LOOP"
  /\ last.short > 255
  /\ last.short % 256 # last.short \div 256
  /\ comp.ip = Aim(last.ip)

\* a loop jumped back over more than 255 bytes
C36_WitnessLoop ==
  /\ Jumped
  /\ last.op = "OP_LOOP"
  /\ last.short > 255
  /\ last.short % 256 # last.short \div 256
  /\ comp.ip = Aim(last.ip)

(* C34: OP_JUMP_IF_FALSE leaves the operand stack as it found it, the      *)
(* instruction run after it on either path is the OP_POP that discards the *)
(* condition, and whenever the VM stands at the start or at the end of a   *)
(* statement the stack holds the locals in scope around the statement and  *)
(* nothing else.                                                           *)
AtEdge(node) == comp.ip = node.start \/ comp.ip = node.end

C34_BranchesLeaveHeight ==
  comp.op = "flow" =>
     /\ last.op \in {"OP_JUMP_IF_FALSE", "jump if false"} =>
           /\ stack = last.before
           /\ comp.code[comp.ip + 1] = Ins("OP_POP")
     /\ \A i \in 1..Len(comp.nodes) :
           AtEdge(comp.nodes[i]) => Len(stack) = comp.nodes[i].height

\* the end of a for statement with a variable, reached after its condition
\* was false: the condition and the variable are gone
C34_Witness ==
  /\ comp.op = "flow"
  /\ last.op = "OP_POP"
  /\ Len(last.before) = 1
  /\ comp.ip > 2
  /\ comp.code[comp.ip - 1] = Ins("OP_POP")
  /\ \E i \in 1..Len(comp.nodes) :
        /\ comp.ip = comp.nodes[i].end
        /\ comp.nodes[i].height = 0
        /\ comp.code[comp.nodes[i].start + 1] = Ins("OP_NIL")
        /\ comp.code[comp.nodes[i].start + 2].op \in Conds

\* the then branch of an if inside a loop was run and the if was left by
\* the jump over its else branch
C34_WitnessTaken ==
  /\ comp.op = "flow"
  /\ last.op = "OP_JUMP"
  /\ \E i \in 1..Len(comp.nodes) :
        /\ comp.ip = comp.nodes[i].end
        /\ comp.nodes[i].start > 0
        /\ comp.code[comp.nodes[i].start + 1] = Ins("OP_TRUE")

(* C37: of two adjacent call frames the newer one starts at or above the   *)
(* slot behind the locals of the older one, and below the top of the       *)
(* stack; the bases never decrease going up the frame stack.               *)
C37_FrameBasesAscend ==
  comp = NoFrontEnd =>
     \A k \in 1..(Len(frames) - 1) :
        /\ frames[k + 1].base >= frames[k].base + Len(frames[k].locals)
        /\ frames[k + 1].base < Len(stack)

\* three frames, the middle one with a declared local below the callee of
\* the newest
C37_Witness ==
  /\ comp = NoFrontEnd
  /\ Running
  /\ Len(frames) = 3
  /\ Len(frames[2].locals) = 2
  /\ frames[3].base = frames[2].base + 2
  /\ frames[2].base > 0

(* C38: a run that interpret() starts after a run that ended with          *)
(* RUNTIME_ERROR finds nothing of the failed run: the stack holds the new  *)
(* script alone, its frame is the only frame and starts at slot 0, and no  *)
(* upvalue is open.                                                        *)
C38_FreshAfterError ==
  (comp = NoFrontEnd /\ last.op = "interpret" /\ last.after = "RUNTIME_ERROR") =>
     /\ stack = <<Obj(2)>>
     /\ Len(frames) = 1
     /\ frames[1].base = 0
     /\ openUpvalues = <<>>

(* C39: an identifier of the program never resolves to a hidden local, the *)
(* slot 0 that a function's compiler starts with: neither as a local of    *)
(* the current function nor as a local captured from an enclosing one.     *)
C39_HiddenLocalsUnmatched ==
  comp.op = "resolve" =>
     /\ comp.last.getOp = "OP_GET_LOCAL" =>
           currentCompiler.locals[comp.last.arg + 1].depth # 0
     /\ comp.last.getOp = "OP_GET_UPVALUE" =>
           LET captured == CapturedLocal(comp.compilers, Len(comp.compilers), comp.last.arg)
           IN comp.compilers[captured[1]].locals[captured[2] + 1].depth # 0

\* C39, the part that holds: no identifier resolves to a hidden local
\* whenever the text holds the word of every hidden local in use.
C39_HiddenLocalsUnmatchedWhenFound ==
  (comp.op = "resolve" /\ HiddenNamesFound) => C39_HiddenLocalsUnmatched

(* C40: while the chunk of a text that compiled is run, the next           *)
(* instruction lies inside the chunk and is an instruction, the stack      *)
(* holds the operands it takes, the operand of OP_CONSTANT is the index of *)
(* a constant of the chunk, pop() never throws, OK is returned by          *)
(* OP_RETURN at the end of the chunk and RUNTIME_ERROR by an instruction   *)
(* that found an operand of the wrong type.                                *)
Instructions ==
  {"OP_CONSTANT", "OP_NIL", "OP_TRUE", "OP_FALSE", "OP_NOT", "OP_EQUAL", "OP_NEGATE",
   "OP_ADD", "OP_RETURN"} \cup BinaryOps

C40_CompiledChunkRunsClean ==
  comp.op = "chunk" =>
     /\ result \in {"running", "OK", "RUNTIME_ERROR"}
     /\ Running =>
           /\ comp.ip < Len(comp.code)
           /\ CodeAt(comp.ip) \in Instructions
           /\ Len(stack) >= Needs(CodeAt(comp.ip))
           /\ CodeAt(comp.ip) = "OP_CONSTANT" =>
                 ByteOf(CodeAt(comp.ip + 1)) \in 0..(Len(comp.constants) - 1)
     /\ result = "OK" => last.op = "OP_RETURN" /\ last.ip = Len(comp.code) - 1
     /\ result = "RUNTIME_ERROR" =>
           /\ last.op \in {"OP_NEGATE", "OP_ADD"} \cup BinaryOps
           /\ last.held >= Needs(last.op)

\* a chunk of two constants ran to its OP_RETURN
C40_Witness ==
  /\ comp.op = "chunk"
  /\ result = "OK"
  /\ Len(comp.constants) = 2
  /\ Len(stack) = 1

\* a chunk stopped at an operand of the wrong type with both operands on
\* the stack
C40_WitnessError ==
  /\ comp.op = "chunk"
  /\ result = "RUNTIME_ERROR"
  /\ last.op = "OP_SUBTRACT"
  /\ Len(stack) = 2

=============================================================================
